---- MODULE Spec2Model ----
(***************************************************************************)
(* A model of the OpenRange repository: the arithmetic progression of      *)
(* openrange/base.py (BaseRange, specialised by openrange/range_.py), the  *)
(* frame-list compactor of frange/__init__.py (_segments_from_frames) and  *)
(* the Frange collection built on it.                                      *)
(***************************************************************************)
EXTENDS Integers, Sequences, FiniteSets, TLC

VARIABLES
    rng,        \* BaseRange: the instance's _start, _stop, _step and the _in_range closure
    orig,       \* BaseRange: the constructor's arguments (history)
    revs,       \* BaseRange: number of reverse() calls so far (history)
    op,         \* BaseRange: the last operation called and what it returned
    gen,        \* BaseRange: the generator iter() returned, where it is suspended
    frames_in,  \* compactor: the list handed to _segments_from_frames
    result,     \* compactor: what _segments_from_frames returned
    segments,   \* Frange: self._segments
    hung,       \* Frange: TRUE once a call entered a loop that never ends
    last,       \* Frange: the last call, its argument and the segments before it
    ctor,       \* BaseRange: the constructor call, its arguments and its outcome
    prog,       \* rangetools Range: the instance's _start, _stop and _step
    spec_in,    \* parser: the spec string handed over
    sep,        \* parser: the separator the collection is configured with
    col,        \* parser: what parsing, str() and parsing again produced
    other,      \* BaseRange: the progression an instance is compared with
    run         \* compactor, loop by loop: the walk of the steps and its pool

vars == <<rng, orig, revs, op, gen, frames_in, result, segments, hung, last,
          ctor, prog, spec_in, sep, col, other, run>>

rangeVars == <<rng, orig, revs, op, gen>>
compactorVars == <<frames_in, result>>
frangeVars == <<segments, hung, last>>
ctorVars == <<ctor>>
propertyVars == <<prog>>
parserVars == <<spec_in, sep, col>>
equalVars == <<other>>
passVars == <<run>>

(***************************************************************************)
(* Bounds of the model.                                                    *)
(***************************************************************************)
MaxInt == 3         \* the integer items are -1 .. MaxInt
MaxQuarter == 5     \* the float items are k/4 for k in 1 .. MaxQuarter
MaxIndex == 6       \* __getitem__ is called with -MaxIndex .. MaxIndex
MaxRev == 2         \* reverse() is called at most MaxRev times
MaxSample == 4      \* random() is called on progressions of at most MaxSample items

(***************************************************************************)
(* What the variables hold in a specification that does not use them.      *)
(***************************************************************************)
NoCtor == [called |-> FALSE, args |-> <<>>, ok |-> TRUE, err |-> ""]
NoProg == [start |-> 0, stop |-> 0, step |-> 1]
NoCol == [stage |-> "none", ok |-> TRUE, err |-> "", segs |-> <<>>, text |-> <<>>,
          again_ok |-> TRUE, again_err |-> "", again |-> <<>>]
CtorIdle == ctor = NoCtor
PropertyIdle == prog = NoProg
ParserIdle == spec_in = <<>> /\ sep = <<",">> /\ col = NoCol
NoOther == [start |-> [c |-> 0, e |-> 0], stop |-> [c |-> 0, e |-> 0],
            step |-> [c |-> 1, e |-> 0], asc |-> TRUE]
NoRun == [stage |-> "none", order |-> <<>>, todo |-> <<>>, frames |-> <<>>,
          segments |-> <<>>, passes |-> 0, num_segments |-> 0, removed |-> 0,
          remove_failed |-> FALSE, result |-> <<>>]
EqualsIdle == other = NoOther
\* the int 0 as a frame number
NoFrame == [float |-> FALSE, neg |-> FALSE, c |-> 0, m |-> <<>>, x |-> 0]
PassesIdle == run = NoRun

(***************************************************************************)
(* Small helpers.                                                          *)
(***************************************************************************)
Abs(n) == IF n < 0 THEN -n ELSE n
Max(a, b) == IF a >= b THEN a ELSE b
Min(a, b) == IF a <= b THEN a ELSE b
Sign(n) == IF n < 0 THEN -1 ELSE IF n > 0 THEN 1 ELSE 0

RECURSIVE Pow10(_)
Pow10(n) == IF n <= 0 THEN 1 ELSE 10 * Pow10(n - 1)

(***************************************************************************)
(* decimal.Decimal: a coefficient c and a number e of decimal places, the  *)
(* value being c / 10^e.  Addition and subtraction keep the larger number  *)
(* of places, an int times a Decimal keeps the Decimal's places, and       *)
(* comparison is by value.                                                 *)
(***************************************************************************)
Dec(c, e) == [c |-> c, e |-> e]
Coef(d, e) == d.c * Pow10(e - d.e)
DecAdd(a, b) == LET e == Max(a.e, b.e) IN Dec(Coef(a, e) + Coef(b, e), e)
DecSub(a, b) == LET e == Max(a.e, b.e) IN Dec(Coef(a, e) - Coef(b, e), e)
DecMulInt(n, d) == Dec(n * d.c, d.e)
DecAbs(d) == Dec(Abs(d.c), d.e)
DecEq(a, b) == LET e == Max(a.e, b.e) IN Coef(a, e) = Coef(b, e)
DecLe(a, b) == LET e == Max(a.e, b.e) IN Coef(a, e) <= Coef(b, e)
DecIsZero(d) == d.c = 0
\* a % b == 0: the remainder of the truncated division is zero
DecRemIsZero(a, b) ==
    LET e == Max(a.e, b.e) IN (Abs(Coef(a, e)) % Abs(Coef(b, e))) = 0
\* int(a / b): the quotient truncated towards zero
DecQuoTrunc(a, b) ==
    LET e == Max(a.e, b.e)
        n == Coef(a, e)
        d == Coef(b, e)
    IN  Sign(n) * Sign(d) * (Abs(n) \div Abs(d))
\* Decimal(str(a / b)).quantize(Decimal('1'), rounding=ROUND_HALF_UP):
\* the quotient rounded to the nearest integer, ties away from zero
DecQuoRoundHalfUp(a, b) ==
    LET e == Max(a.e, b.e)
        n == Coef(a, e)
        d == Coef(b, e)
    IN  Sign(n) * Sign(d) * ((2 * Abs(n) + Abs(d)) \div (2 * Abs(d)))

(***************************************************************************)
(* Items: Python ints and floats.  An int n is [int |-> TRUE, c |-> n,     *)
(* e |-> 0]; a float is held as the digits of its str(): at least one      *)
(* decimal place and no trailing zero beyond the first place.              *)
(***************************************************************************)
RECURSIVE NormFloat(_, _)
NormFloat(c, e) ==
    IF e > 1 /\ c % 10 = 0 THEN NormFloat(c \div 10, e - 1)
    ELSE [int |-> FALSE, c |-> c, e |-> e]
IntItem(n) == [int |-> TRUE, c |-> n, e |-> 0]
FloatItem(c, e) == IF e = 0 THEN NormFloat(c * 10, 1) ELSE NormFloat(c, e)

\* Range._item_to_num: Decimal(str(item))
_item_to_num(item) == Dec(item.c, item.e)
\* Range._num_to_item: int(str(num)), and float(str(num)) when int() rejects it
_num_to_item(num) == IF num.e = 0 THEN IntItem(num.c) ELSE FloatItem(num.c, num.e)
\* BaseRange._step_to_num and _num_to_step default to the item conversions
_step_to_num(step) == _item_to_num(step)
_num_to_step(num) == _num_to_item(num)
\* Python's == on two numbers
ItemEq(a, b) == DecEq(Dec(a.c, a.e), Dec(b.c, b.e))

(***************************************************************************)
(* BaseRange (openrange/base.py).                                          *)
(***************************************************************************)
\* __init__ with three arguments, stop not None and step != 0.  asc records
\* which of the two _in_range closures the constructor installed.
BaseRange__init__(start, stop, step) ==
    [start |-> _item_to_num(start),
     stop  |-> _item_to_num(stop),
     step  |-> _step_to_num(step),
     asc   |-> _step_to_num(step).c > 0]

\* a slip: the stop bound is exclusive
_in_range_exclusive(r, i) ==
    IF r.asc THEN DecLe(r.start, i) /\ DecLe(i, r.stop) /\ ~DecEq(i, r.stop)
    ELSE DecLe(i, r.start) /\ DecLe(r.stop, i) /\ ~DecEq(i, r.stop)
\* the closure self._in_range: it reads _start and _stop when called
_in_range(r, i) ==
    IF r.asc THEN DecLe(r.start, i) /\ DecLe(i, r.stop)
    ELSE DecLe(i, r.start) /\ DecLe(r.stop, i)

RECURSIVE _iter_from(_, _)
_iter_from(r, i) ==
    IF _in_range(r, i) THEN <<i>> \o _iter_from(r, DecAdd(i, r.step)) ELSE <<>>
\* _iter: the numbers yielded
_iter(r) == _iter_from(r, r.start)
\* __iter__: the items yielded
BaseRange__iter__(r) == [k \in 1..Len(_iter(r)) |-> _num_to_item(_iter(r)[k])]

\* __len__: the integer the method returns (len() rejects a negative one)
BaseRange__len__(r) ==
    LET diff == DecSub(r.stop, r.start)
        num_items == DecQuoRoundHalfUp(diff, r.step)
    IN  IF DecRemIsZero(diff, r.step) THEN num_items + 1 ELSE num_items

\* results of a call: a value or the exception raised
NoItem == IntItem(0)
Returned(val, item) == [ok |-> TRUE, err |-> "", val |-> val, item |-> item]
Raised(err) == [ok |-> FALSE, err |-> err, val |-> 0, item |-> NoItem]

\* len(self): ValueError when __len__ returns a negative number
BuiltinLen(r) ==
    IF BaseRange__len__(r) < 0 THEN Raised("ValueError")
    ELSE Returned(BaseRange__len__(r), NoItem)

\* list(self): ValueError when __len__ returns a negative number, the items
\* of __iter__ otherwise (whatever the length __len__ gave)
BuiltinList(r) ==
    IF BaseRange__len__(r) < 0 THEN Raised("ValueError") ELSE Returned(0, NoItem)

\* __contains__
BaseRange__contains__(r, item) ==
    LET num == _item_to_num(item) IN
    IF ~_in_range(r, num) THEN FALSE
    ELSE DecRemIsZero(DecSub(num, r.start), r.step)

\* a slip: index without the test that item is on the step lattice
BaseRange_index_unchecked(r, item) ==
    LET num == _item_to_num(item)
        diff == DecAbs(DecSub(num, r.start))
    IN  IF ~_in_range(r, num) THEN Raised("ValueError")
        ELSE Returned(Abs(DecQuoTrunc(diff, r.step)), NoItem)
\* index
BaseRange_index(r, item) ==
    LET num == _item_to_num(item)
        diff == DecAbs(DecSub(num, r.start))
    IN  IF ~_in_range(r, num) THEN Raised("ValueError")
        ELSE IF ~DecRemIsZero(DecSub(num, r.start), r.step) THEN Raised("ValueError")
        ELSE Returned(Abs(DecQuoTrunc(diff, r.step)), NoItem)

\* __getitem__ with an int index
BaseRange__getitem__(r, index) ==
    IF ~BuiltinLen(r).ok THEN Raised("ValueError")
    ELSE LET n == BuiltinLen(r).val
             i == IF index < 0 THEN index + n ELSE index
         IN  IF i >= n THEN Raised("IndexError")
             ELSE Returned(0, _num_to_item(DecAdd(DecMulInt(i, r.step), r.start)))

\* a slip: reverse that negates the step without exchanging start and stop
BaseRange_reverse_unswapped(r) == [r EXCEPT !.step = DecMulInt(-1, r.step)]
\* reverse
BaseRange_reverse(r) ==
    [r EXCEPT !.start = r.stop, !.stop = r.start, !.step = DecMulInt(-1, r.step)]

\* a slip: __eq__ that leaves the step out
BaseRange__eq__stepless(a, b) ==
    DecEq(a.start, b.start) /\ DecEq(a.stop, b.stop)
\* __eq__
BaseRange__eq__(a, b) ==
    DecEq(a.start, b.start) /\ DecEq(a.stop, b.stop) /\ DecEq(a.step, b.step)
\* a != b on two instances: the class defines no __ne__ and the package runs
\* under Python 2 and 3 (it imports six).  Python 3 negates what __eq__
\* returns; Python 2 does not use __eq__ and compares the identities, so two
\* instances are always unequal.
Pythons == {2, 3}
BaseRange__ne__(a, b, python) == IF python = 2 THEN TRUE ELSE ~BaseRange__eq__(a, b)

\* the start, stop and step properties, and a new instance made from them
BaseRange_copy(r) ==
    BaseRange__init__(_num_to_item(r.start), _num_to_item(r.stop), _num_to_step(r.step))
\* __reversed__: cls(self.start, self.stop, self.step), then reverse() on it
BaseRange__reversed__(r) == BaseRange_reverse(BaseRange_copy(r))

\* random.sample(population, k): the ways to draw k of n positions, in order
Samples ==
    [n \in 0..(MaxSample + 1) |->
        [k \in 0..n |-> {s \in [1..k -> 1..n] : \A i, j \in 1..k : i # j => s[i] # s[j]}]]
\* random(): what the generator does once it is iterated.  list(self) and
\* len(self) raise ValueError when __len__ is negative, and random.sample
\* raises ValueError when len(self) exceeds the number of items.
BaseRange_random_fails(r) ==
    ~BuiltinList(r).ok \/ ~BuiltinLen(r).ok
        \/ BuiltinLen(r).val > Len(BaseRange__iter__(r))
\* the items yielded for a draw s: _num_to_item of each item drawn
BaseRange_random(r, s) ==
    [i \in 1..Len(s) |-> _num_to_item(_item_to_num(BaseRange__iter__(r)[s[i]]))]

(***************************************************************************)
(* The progression as a state machine: constructed from bounded arguments, *)
(* then reversed, iterated, measured, searched and indexed.                *)
(***************************************************************************)
IntItems == {IntItem(n) : n \in (0 - 1)..MaxInt}
FloatItems == {FloatItem(25 * k, 2) : k \in 1..MaxQuarter}
Items == IntItems \cup FloatItems
Negated(item) == [item EXCEPT !.c = 0 - item.c]
StepItems == {s \in Items \cup {Negated(i) : i \in Items} : s.c # 0}

OpRec(name, arg, index, res, items) ==
    [name |-> name, arg |-> arg, index |-> index, ok |-> res.ok, err |-> res.err,
     val |-> res.val, item |-> res.item, items |-> items]
NoOp == OpRec("none", NoItem, 0, Returned(0, NoItem), <<>>)
\* no generator is open.  An open one is that of __iter__ or that of
\* random(): new until its first next(), then suspended at a yield; i is the
\* number _iter stands at, pending the items random() drew and has yet to
\* yield, items what the generator yielded so far.
NoGen == [state |-> "none", kind |-> "none", i |-> Dec(0, 0), items |-> <<>>,
          pending |-> <<>>]
BoolVal(b) == IF b THEN 1 ELSE 0

InitRange ==
    /\ \E start \in Items, stop \in Items, step \in StepItems :
           rng = BaseRange__init__(start, stop, step)
    /\ orig = rng
    /\ revs = 0
    /\ op = NoOp
    /\ gen = NoGen
    /\ frames_in = <<>> /\ result = [done |-> FALSE, segments |-> <<>>, remove_failed |-> FALSE]
    /\ segments = <<>> /\ hung = FALSE /\ last = [name |-> "none", ok |-> TRUE, err |-> "", pre |-> <<>>,
                 arg |-> [kind |-> "number", num |-> NoFrame, spec |-> <<>>, segs |-> <<>>,
                          items |-> <<>>],
                 calls |-> 0, prev |-> "none"]
    /\ CtorIdle /\ PropertyIdle /\ ParserIdle
    /\ EqualsIdle /\ PassesIdle

\* The library is synchronous: a method is called when no call is pending, and
\* its result stays in op until the caller takes it (Return).  __iter__ and
\* random() are generators: between two of their items the caller can call
\* reverse().  The calls that only read the instance are made when no
\* generator is open.
Reverse ==
    /\ op = NoOp
    /\ revs < MaxRev
    /\ rng' = BaseRange_reverse(rng)
    /\ revs' = revs + 1
    /\ op' = OpRec("reverse", NoItem, 0, Returned(0, NoItem), <<>>)
    /\ UNCHANGED <<orig, gen, compactorVars, frangeVars,
                 ctorVars, propertyVars, parserVars,
                 equalVars, passVars>>

\* it = iter(r): the generator is made and none of its code has run
Iter ==
    /\ op = NoOp /\ gen = NoGen
    /\ gen' = [NoGen EXCEPT !.state = "new", !.kind = "iter"]
    /\ UNCHANGED <<rng, orig, revs, op, compactorVars, frangeVars,
                 ctorVars, propertyVars, parserVars,
                 equalVars, passVars>>

\* next(it): _iter runs to its next yield or to its end.  On the first call
\* i = self._start; on a later one i += self._step, then the while test; both
\* read the instance as it is now.  At the end StopIteration is raised and
\* the generator is dropped; op.items holds what it yielded in all.
NextItem ==
    /\ op = NoOp /\ gen.kind = "iter" /\ gen.state \in {"new", "suspended"}
    /\ LET i == IF gen.state = "new" THEN rng.start ELSE DecAdd(gen.i, rng.step) IN
       IF _in_range(rng, i)
       THEN /\ gen' = [gen EXCEPT !.state = "suspended", !.i = i,
                                   !.items = Append(gen.items, _num_to_item(i))]
            /\ op' = OpRec("next", NoItem, 0, Returned(0, _num_to_item(i)), <<>>)
       ELSE /\ gen' = NoGen
            /\ op' = OpRec("next", NoItem, 0, Raised("StopIteration"), gen.items)
    /\ UNCHANGED <<rng, orig, revs, compactorVars, frangeVars,
                 ctorVars, propertyVars, parserVars,
                 equalVars, passVars>>

\* [x for x in r]: a for loop over the generator, run to its end within one
\* call
Iterate ==
    /\ op = NoOp /\ gen = NoGen
    /\ op' = OpRec("iter", NoItem, 0, Returned(0, NoItem), BaseRange__iter__(rng))
    /\ UNCHANGED <<rng, orig, revs, gen, compactorVars, frangeVars,
                 ctorVars, propertyVars, parserVars,
                 equalVars, passVars>>

\* list(r): list() asks __len__ for the size to reserve before it iterates,
\* and a negative answer raises ValueError
List ==
    /\ op = NoOp /\ gen = NoGen
    /\ op' = IF BuiltinList(rng).ok
             THEN OpRec("list", NoItem, 0, BuiltinList(rng), BaseRange__iter__(rng))
             ELSE OpRec("list", NoItem, 0, BuiltinList(rng), <<>>)
    /\ UNCHANGED <<rng, orig, revs, gen, compactorVars, frangeVars,
                 ctorVars, propertyVars, parserVars,
                 equalVars, passVars>>

Length ==
    /\ op = NoOp /\ gen = NoGen
    /\ op' = OpRec("len", NoItem, 0, BuiltinLen(rng), <<>>)
    /\ UNCHANGED <<rng, orig, revs, gen, compactorVars, frangeVars,
                 ctorVars, propertyVars, parserVars,
                 equalVars, passVars>>

Contains ==
    /\ op = NoOp /\ gen = NoGen
    /\ \E x \in Items :
           op' = OpRec("contains", x, 0,
                       Returned(BoolVal(BaseRange__contains__(rng, x)), NoItem), <<>>)
    /\ UNCHANGED <<rng, orig, revs, gen, compactorVars, frangeVars,
                 ctorVars, propertyVars, parserVars,
                 equalVars, passVars>>

Index ==
    /\ op = NoOp /\ gen = NoGen
    /\ \E x \in Items : op' = OpRec("index", x, 0, BaseRange_index(rng, x), <<>>)
    /\ UNCHANGED <<rng, orig, revs, gen, compactorVars, frangeVars,
                 ctorVars, propertyVars, parserVars,
                 equalVars, passVars>>

GetItem ==
    /\ op = NoOp /\ gen = NoGen
    /\ \E i \in (0 - MaxIndex)..MaxIndex :
           op' = OpRec("getitem", NoItem, i, BaseRange__getitem__(rng, i), <<>>)
    /\ UNCHANGED <<rng, orig, revs, gen, compactorVars, frangeVars,
                 ctorVars, propertyVars, parserVars,
                 equalVars, passVars>>

\* g = r.random(): the generator is made and none of its code has run
RandomIter ==
    /\ op = NoOp /\ gen = NoGen
    /\ gen' = [NoGen EXCEPT !.state = "new", !.kind = "random"]
    /\ UNCHANGED <<rng, orig, revs, op, compactorVars, frangeVars,
                 ctorVars, propertyVars, parserVars,
                 equalVars, passVars>>

\* next(g): on the first call random.sample(list(self), len(self)) is drawn
\* from the instance as it is now, and its ValueError ends the generator;
\* then and on every later call the next item drawn is yielded, or
\* StopIteration is raised when none is left.  op.items holds what the
\* generator yielded in all.
RandomNext ==
    /\ op = NoOp /\ gen.kind = "random" /\ gen.state \in {"new", "suspended"}
    /\ gen.state = "new" => Len(BaseRange__iter__(rng)) <= MaxSample
    /\ IF gen.state = "new" /\ BaseRange_random_fails(rng)
       THEN /\ gen' = NoGen
            /\ op' = OpRec("random_next", NoItem, 0, Raised("ValueError"), <<>>)
       ELSE \E s \in IF gen.state = "new"
                     THEN Samples[Len(BaseRange__iter__(rng))][BuiltinLen(rng).val]
                     ELSE {<<>>} :
                LET pending == IF gen.state = "new" THEN BaseRange_random(rng, s)
                               ELSE gen.pending
                IN  IF pending = <<>>
                    THEN /\ gen' = NoGen
                         /\ op' = OpRec("random_next", NoItem, 0,
                                        Raised("StopIteration"), gen.items)
                    ELSE /\ gen' = [gen EXCEPT !.state = "suspended",
                                               !.items = Append(gen.items, Head(pending)),
                                               !.pending = Tail(pending)]
                         /\ op' = OpRec("random_next", NoItem, 0,
                                        Returned(0, Head(pending)), <<>>)
    /\ UNCHANGED <<rng, orig, revs, compactorVars, frangeVars,
                 ctorVars, propertyVars, parserVars,
                 equalVars, passVars>>

\* list(r.random()): the generator of random() run to its end within one call
Random ==
    /\ op = NoOp /\ gen = NoGen
    /\ Len(BaseRange__iter__(rng)) <= MaxSample
    /\ IF BaseRange_random_fails(rng)
       THEN op' = OpRec("random", NoItem, 0, Raised("ValueError"), <<>>)
       ELSE \E s \in Samples[Len(BaseRange__iter__(rng))][BuiltinLen(rng).val] :
                op' = OpRec("random", NoItem, 0, Returned(0, NoItem),
                            BaseRange_random(rng, s))
    /\ UNCHANGED <<rng, orig, revs, gen, compactorVars, frangeVars,
                 ctorVars, propertyVars, parserVars,
                 equalVars, passVars>>

\* reversed(r): the caller goes on with the new instance, which was
\* constructed from r's start, stop and step and reversed once
ReversedNew ==
    /\ op = NoOp /\ gen = NoGen
    /\ rng' = BaseRange__reversed__(rng)
    /\ orig' = BaseRange_copy(rng)
    /\ revs' = 1
    /\ op' = OpRec("reversed", NoItem, 0, Returned(0, NoItem), <<>>)
    /\ UNCHANGED <<gen, compactorVars, frangeVars,
                 ctorVars, propertyVars, parserVars,
                 equalVars, passVars>>

Return ==
    /\ op # NoOp
    /\ op' = NoOp
    /\ UNCHANGED <<rng, orig, revs, gen, compactorVars, frangeVars,
                 ctorVars, propertyVars, parserVars,
                 equalVars, passVars>>

NextRange ==
    \/ Reverse \/ Iterate \/ Length \/ Contains \/ Index \/ GetItem \/ Return
    \/ Random \/ ReversedNew \/ Iter \/ NextItem \/ List \/ RandomIter \/ RandomNext

SpecRange == InitRange /\ [][NextRange]_vars

(***************************************************************************)
(* frange/__init__.py: the numbers of a frame range.  A frame, a stop or a *)
(* step is a Python number.  An int n is held with its value in c.  A      *)
(* float is an IEEE 754 double held exactly: its value is m * 2^x, m an    *)
(* odd natural number written as its bits, lowest first (no bits and x = 0 *)
(* for zero), and neg its sign, which tells -0.0 from 0.0.  Sums of floats *)
(* are rounded to 53 bits as the machine rounds them.  The ints stay       *)
(* within 32 bits and the floats within the normal range of a double.      *)
(***************************************************************************)
\* a natural number as its bits, lowest first, the highest one being 1
RECURSIVE BitsOf(_)
BitsOf(n) == IF n = 0 THEN <<>> ELSE <<n % 2>> \o BitsOf(n \div 2)
RECURSIVE BitsValue(_)
BitsValue(b) == IF b = <<>> THEN 0 ELSE b[1] + 2 * BitsValue(Tail(b))
BitAt(b, i) == IF i >= 1 /\ i <= Len(b) THEN b[i] ELSE 0
BitsTrim(b) ==
    IF \A i \in 1..Len(b) : b[i] = 0 THEN <<>>
    ELSE SubSeq(b, 1, CHOOSE i \in 1..Len(b) : b[i] = 1 /\ \A j \in (i + 1)..Len(b) : b[j] = 0)
BitsShl(b, k) ==
    IF b = <<>> THEN <<>> ELSE [i \in 1..(Len(b) + k) |-> IF i <= k THEN 0 ELSE b[i - k]]
BitsShr(b, k) == IF k >= Len(b) THEN <<>> ELSE SubSeq(b, k + 1, Len(b))
BitsLow(b, k) == BitsTrim(SubSeq(b, 1, Min(k, Len(b))))
RECURSIVE BitsAddFrom(_, _, _, _)
BitsAddFrom(a, b, i, carry) ==
    IF i > Len(a) /\ i > Len(b) THEN (IF carry = 1 THEN <<1>> ELSE <<>>)
    ELSE LET s == BitAt(a, i) + BitAt(b, i) + carry
         IN  <<s % 2>> \o BitsAddFrom(a, b, i + 1, s \div 2)
BitsAdd(a, b) == BitsAddFrom(a, b, 1, 0)
\* a - b for a >= b
RECURSIVE BitsSubFrom(_, _, _, _)
BitsSubFrom(a, b, i, borrow) ==
    IF i > Len(a) THEN <<>>
    ELSE LET d == BitAt(a, i) - BitAt(b, i) - borrow
         IN  <<d % 2>> \o BitsSubFrom(a, b, i + 1, IF d < 0 THEN 1 ELSE 0)
BitsSub(a, b) == BitsTrim(BitsSubFrom(a, b, 1, 0))
BitsLess(a, b) ==
    \/ Len(a) < Len(b)
    \/ /\ Len(a) = Len(b)
       /\ \E i \in 1..Len(a) : a[i] < b[i] /\ \A j \in (i + 1)..Len(a) : a[j] = b[j]
BitsTimes10(b) == BitsAdd(BitsShl(b, 1), BitsShl(b, 3))
\* b divided by 10, from the highest bit down: quotient q and remainder r
RECURSIVE BitsDivMod10(_, _, _, _)
BitsDivMod10(b, i, r, q) ==
    IF i < 1 THEN [q |-> BitsTrim(q), r |-> r]
    ELSE BitsDivMod10(b, i - 1, (2 * r + b[i]) % 10, <<(2 * r + b[i]) \div 10>> \o q)
\* the decimal digits of a natural number, highest first (none for 0)
RECURSIVE BitsDigits(_)
BitsDigits(b) ==
    IF b = <<>> THEN <<>>
    ELSE LET Digits(d) == Append(BitsDigits(d.q), d.r)
         IN  Digits(BitsDivMod10(b, Len(b), 0, <<>>))

\* a sum of two signed magnitudes
SignedAdd(aneg, a, bneg, b) ==
    IF aneg = bneg THEN [neg |-> aneg, m |-> BitsAdd(a, b)]
    ELSE IF a = b THEN [neg |-> FALSE, m |-> <<>>]
    ELSE IF BitsLess(a, b) THEN [neg |-> bneg, m |-> BitsSub(b, a)]
    ELSE [neg |-> aneg, m |-> BitsSub(a, b)]

\* a Python int
FrameInt(n) == [float |-> FALSE, neg |-> n < 0, c |-> n, m |-> <<>>, x |-> 0]
\* the float of value bits * 2^x, bits having at most 53 significant ones
Float(neg, bits, x) ==
    LET Odd(m) ==
            LET z == (CHOOSE i \in 1..Len(m) : m[i] = 1 /\ \A j \in 1..(i - 1) : m[j] = 0) - 1
            IN  IF m = <<>> THEN [float |-> TRUE, neg |-> neg, c |-> 0, m |-> <<>>, x |-> 0]
                ELSE [float |-> TRUE, neg |-> neg, c |-> 0, m |-> BitsShr(m, z), x |-> x + z]
    IN  Odd(BitsTrim(bits))
\* the double nearest to bits * 2^x, ties going to the even one
RoundToDouble(v) ==
    LET m == BitsTrim(v.m)
        cut == Len(m) - 53
        kept == BitsShr(m, cut)
        half == m[cut] = 1
        below == \E i \in 1..(cut - 1) : m[i] = 1
        up == half /\ (below \/ kept[1] = 1)
    IN  Float(v.neg,
              IF cut <= 0 THEN m ELSE IF up THEN BitsAdd(kept, <<1>>) ELSE kept,
              IF cut <= 0 THEN v.x ELSE v.x + cut)
\* float(n) of an int
FloatOfInt(n) == Float(n < 0, BitsOf(Abs(n)), 0)
AsFloat(num) == IF num.float THEN num ELSE FloatOfInt(num.c)
\* a + b of two floats
FloatAdd(a, b) ==
    LET e == IF a.m = <<>> THEN b.x ELSE IF b.m = <<>> THEN a.x ELSE Min(a.x, b.x)
        Sum(sum) == [neg |-> sum.neg, m |-> sum.m, x |-> e]
    IN  RoundToDouble(Sum(SignedAdd(a.neg, BitsShl(a.m, a.x - e),
                                    b.neg, BitsShl(b.m, b.x - e))))
\* a < b of two floats
FloatLess(a, b) ==
    LET e == IF a.m = <<>> THEN b.x ELSE IF b.m = <<>> THEN a.x ELSE Min(a.x, b.x)
        A == BitsShl(a.m, a.x - e)
        B == BitsShl(b.m, b.x - e)
        sa == IF a.m = <<>> THEN 0 ELSE IF a.neg THEN 0 - 1 ELSE 1
        sb == IF b.m = <<>> THEN 0 ELSE IF b.neg THEN 0 - 1 ELSE 1
    IN  IF sa # sb THEN sa < sb
        ELSE IF sa = 1 THEN BitsLess(A, B)
        ELSE IF sa = 0 - 1 THEN BitsLess(B, A)
        ELSE FALSE
NumNeg(num) ==
    IF num.float THEN [num EXCEPT !.neg = ~num.neg] ELSE FrameInt(0 - num.c)
\* a + b, a - b, a == b, a < b, a <= b and not a: two ints are taken as
\* ints, and an int met by a float is made a float first
NumAdd(a, b) ==
    IF ~a.float /\ ~b.float THEN FrameInt(a.c + b.c) ELSE FloatAdd(AsFloat(a), AsFloat(b))
NumSub(a, b) ==
    IF ~a.float /\ ~b.float THEN FrameInt(a.c - b.c)
    ELSE FloatAdd(AsFloat(a), NumNeg(AsFloat(b)))
NumEq(a, b) ==
    LET FloatEq(fa, fb) ==
            /\ fa.m = fb.m
            /\ fa.x = fb.x
            /\ fa.m = <<>> \/ fa.neg = fb.neg
    IN  IF ~a.float /\ ~b.float THEN a.c = b.c ELSE FloatEq(AsFloat(a), AsFloat(b))
NumLess(a, b) ==
    IF ~a.float /\ ~b.float THEN a.c < b.c ELSE FloatLess(AsFloat(a), AsFloat(b))
NumLe(a, b) == NumLess(a, b) \/ NumEq(a, b)
NumIsZero(num) == IF num.float THEN num.m = <<>> ELSE num.c = 0

(***************************************************************************)
(* str() and float() of CPython 2.7, the interpreter the module is written *)
(* for (it uses basestring).  A string is a sequence of one-character      *)
(* strings.                                                                *)
(***************************************************************************)
DigitChars == <<"0", "1", "2", "3", "4", "5", "6", "7", "8", "9">>
IsDigit(ch) == \E d \in 1..10 : DigitChars[d] = ch
DigitValue(ch) == (CHOOSE d \in 1..10 : DigitChars[d] = ch) - 1

RECURSIVE NatStr(_)
NatStr(n) ==
    IF n < 10 THEN <<DigitChars[n + 1]>>
    ELSE Append(NatStr(n \div 10), DigitChars[(n % 10) + 1])
\* str(n) of an int
IntStr(n) == IF n < 0 THEN <<"-">> \o NatStr(0 - n) ELSE NatStr(n)

\* the digits of the fraction f / 2^w that follow the digits acc, until there
\* are need more of them or the fraction is used up; the zeros before the
\* first digit that is not 0 are counted and not kept
RECURSIVE FracDigits(_, _, _, _, _)
FracDigits(f, w, need, zeros, acc) ==
    IF need <= 0 \/ f = <<>> THEN [digits |-> acc, zeros |-> zeros, rest |-> f]
    ELSE LET t == BitsTimes10(f)
             d == BitsValue(BitsShr(t, w))
         IN  IF acc = <<>> /\ d = 0
             THEN FracDigits(BitsLow(t, w), w, need, zeros + 1, acc)
             ELSE FracDigits(BitsLow(t, w), w, need - 1, zeros, Append(acc, d))
RECURSIVE IncDigits(_)
IncDigits(digits) ==
    IF digits = <<>> THEN <<1>>
    ELSE IF digits[Len(digits)] < 9
    THEN [digits EXCEPT ![Len(digits)] = digits[Len(digits)] + 1]
    ELSE Append(IncDigits(SubSeq(digits, 1, Len(digits) - 1)), 0)
RECURSIVE StripZeros(_)
StripZeros(digits) ==
    IF digits # <<>> /\ digits[Len(digits)] = 0
    THEN StripZeros(SubSeq(digits, 1, Len(digits) - 1)) ELSE digits
Zeros(n) == [k \in 1..n |-> "0"]
\* format_float_short with 'g' and precision 12 on a float that is not zero:
\* the first 12 significant digits, rounded on what follows them (a half goes
\* to the even digit), without their trailing zeros, and the place decpt of
\* the decimal point
Precision == 12
FloatDigits(num) ==
    LET w == IF num.x < 0 THEN 0 - num.x ELSE 0
        fpart == IF num.x >= 0 THEN <<>> ELSE BitsLow(num.m, w)
        Round(idigits, fd) ==
            LET n == Len(idigits)
                digits == IF n > Precision THEN SubSeq(idigits, 1, Precision) ELSE fd.digits
                tail == fpart # <<>> \/ \E k \in (Precision + 2)..n : idigits[k] # 0
                above == IF n > Precision
                         THEN idigits[Precision + 1] > 5 \/ (idigits[Precision + 1] = 5 /\ tail)
                         ELSE BitAt(fd.rest, w) = 1 /\ \E i \in 1..(w - 1) : BitAt(fd.rest, i) = 1
                half == IF n > Precision
                        THEN idigits[Precision + 1] = 5 /\ ~tail
                        ELSE BitAt(fd.rest, w) = 1 /\ \A i \in 1..(w - 1) : BitAt(fd.rest, i) = 0
                up == above \/ (half /\ digits[Len(digits)] % 2 = 1)
                Placed(rounded) ==
                    [digits |-> StripZeros(rounded),
                     decpt |-> (IF n > 0 THEN n ELSE 0 - fd.zeros)
                               + Len(rounded) - Len(digits)]
            IN  Placed(IF up THEN IncDigits(digits) ELSE digits)
        Fraction(idigits) ==
            Round(idigits, FracDigits(fpart, w, Precision - Len(idigits), 0, idigits))
    IN  Fraction(BitsDigits(IF num.x >= 0 THEN BitsShl(num.m, num.x) ELSE BitsShr(num.m, w)))
\* str(f) of a float: repr style 'g' with 12 digits, ".0" added to what would
\* read as an int, and an exponent of two digits or more when the decimal
\* point lies more than 4 places before the digits or behind the 11th (with
\* ".0" to add, format_float_short leaves the exponent form at precision - 1
\* places: str(1e11) is "1e+11", str(99999999999.0) is "99999999999.0")
FloatStr(num) ==
    LET sign == IF num.neg THEN <<"-">> ELSE <<>>
        Format(fd) ==
            LET chars == [k \in 1..Len(fd.digits) |-> DigitChars[fd.digits[k] + 1]]
                expo == fd.decpt - 1
            IN  IF fd.decpt <= 0 - 4 \/ fd.decpt > Precision - 1
                THEN sign \o <<chars[1]>>
                          \o (IF Len(chars) > 1 THEN <<".">> \o Tail(chars) ELSE <<>>)
                          \o <<"e", IF expo < 0 THEN "-" ELSE "+">>
                          \o (IF Abs(expo) < 10 THEN <<"0">> ELSE <<>>) \o NatStr(Abs(expo))
                ELSE IF fd.decpt <= 0 THEN sign \o <<"0", ".">> \o Zeros(0 - fd.decpt) \o chars
                ELSE IF Len(chars) <= fd.decpt
                THEN sign \o chars \o Zeros(fd.decpt - Len(chars)) \o <<".", "0">>
                ELSE sign \o SubSeq(chars, 1, fd.decpt) \o <<".">>
                          \o SubSeq(chars, fd.decpt + 1, Len(chars))
    IN  IF num.m = <<>> THEN sign \o <<"0", ".", "0">> ELSE Format(FloatDigits(num))
\* str(num)
NumStr(num) == IF num.float THEN FloatStr(num) ELSE IntStr(num.c)

\* the natural number written by a string of digits
RECURSIVE DigitsBits(_)
DigitsBits(str) ==
    IF str = <<>> THEN <<>>
    ELSE BitsAdd(BitsTimes10(DigitsBits(SubSeq(str, 1, Len(str) - 1))),
                 BitsOf(DigitValue(str[Len(str)])))
RECURSIVE BitsPow10(_)
BitsPow10(e) == IF e = 0 THEN <<1>> ELSE BitsTimes10(BitsPow10(e - 1))
\* c / d bit by bit, from the highest bit of c down and on into the fraction
\* until the quotient q has 55 bits from its first 1 or nothing is left: r is
\* the remainder, and i counts the bits of the fraction with 0, -1, -2, ...
SignificantBits == 55
RECURSIVE Quotient(_, _, _, _, _, _)
Quotient(c, i, r, d, q, sig) ==
    IF i < 1 /\ (r = <<>> \/ sig >= SignificantBits) THEN [q |-> q, r |-> r, x |-> i]
    ELSE LET r2 == BitsTrim(<<BitAt(c, i)>> \o r)
             bit == IF BitsLess(r2, d) THEN 0 ELSE 1
         IN  Quotient(c, i - 1, IF bit = 1 THEN BitsSub(r2, d) ELSE r2, d, <<bit>> \o q,
                      IF sig > 0 \/ bit = 1 THEN sig + 1 ELSE 0)
\* float() of the decimal c / 10^e: the double nearest to it
DoubleOfDecimal(neg, c, e) ==
    LET Sticky(d) ==
            IF d.r = <<>> THEN [neg |-> neg, m |-> d.q, x |-> d.x]
            ELSE [neg |-> neg, m |-> <<1>> \o d.q, x |-> d.x - 1]
    IN  RoundToDouble(Sticky(Quotient(c, Len(c), <<>>, BitsPow10(e), <<>>, 0)))
\* the float written c / 10^e, with the sign neg when c is 0
FrameFloat(c, e, neg) == DoubleOfDecimal(neg \/ c < 0, BitsOf(Abs(c)), e)

(***************************************************************************)
(* frange/__init__.py: segments, their iteration and the compactor.        *)
(***************************************************************************)
\* _FrangeSegment.__init__ with stop and step given (step != 0)
_FrangeSegment(start, stop, step) == [start |-> start, stop |-> stop, step |-> step]
\* _FrangeSegment(frame): stop defaults to start and step to 1
_FrangeSegmentOf(frame) == _FrangeSegment(frame, frame, FrameInt(1))

\* the while loops of _range: i is yielded while it has not passed stop
RECURSIVE _range_from(_, _, _, _)
_range_from(i, start, stop, step) ==
    IF (IF NumLess(start, stop) THEN NumLe(i, stop) ELSE NumLe(stop, i))
    THEN <<i>> \o _range_from(NumAdd(i, step), start, stop, step)
    ELSE <<>>
\* i += step leaves i where it is: a step of 0, or a float step too small to
\* change the float i
RECURSIVE _range_stalls(_, _, _, _)
_range_stalls(i, start, stop, step) ==
    /\ IF NumLess(start, stop) THEN NumLe(i, stop) ELSE NumLe(stop, i)
    /\ \/ NumEq(NumAdd(i, step), i)
       \/ _range_stalls(NumAdd(i, step), start, stop, step)
\* _range never stops yielding when step points away from stop or i stalls
_range_diverges(start, stop, step) ==
    /\ ~NumEq(start, stop)
    /\ \/ NumLess(start, stop) /\ NumLess(step, FrameInt(0))
       \/ NumLess(stop, start) /\ NumLess(FrameInt(0), step)
       \/ NumIsZero(step)
       \/ (start.float \/ step.float) /\ _range_stalls(start, start, stop, step)
\* _range: the frames yielded (of a call that returns)
_range(start, stop, step) ==
    IF NumEq(start, stop) THEN <<start>>
    ELSE IF _range_diverges(start, stop, step) THEN <<>>
    ELSE _range_from(start, start, stop, step)
\* _FrangeSegment.__iter__
SegmentFrames(seg) == _range(seg.start, seg.stop, seg.step)
SegmentDiverges(seg) == _range_diverges(seg.start, seg.stop, seg.step)

RECURSIVE _frames_from_segments(_)
_frames_from_segments(segs) ==
    IF segs = <<>> THEN <<>>
    ELSE SegmentFrames(Head(segs)) \o _frames_from_segments(Tail(segs))
AnyDiverges(segs) == \E k \in 1..Len(segs) : SegmentDiverges(segs[k])

\* f in frames: membership by ==, so that 2.0 is in [1, 2, 3]
NumIn(f, frames) == \E k \in 1..Len(frames) : NumEq(frames[k], f)

\* list.remove(f): drops the first occurrence (ValueError when there is none)
RECURSIVE ListRemove(_, _)
ListRemove(list, f) ==
    IF list = <<>> THEN <<>>
    ELSE IF NumEq(Head(list), f) THEN Tail(list)
    ELSE <<Head(list)>> \o ListRemove(Tail(list), f)
\* for f in segment_frames: frames.remove(f)
RECURSIVE ListRemoveAll(_, _)
ListRemoveAll(list, group) ==
    IF group = <<>> THEN list
    ELSE ListRemoveAll(ListRemove(list, Head(group)), Tail(group))

\* hash(num) as the 64 bits of a C long, lowest first: an int is its own
\* hash, a float with no fraction has the hash of the int or, beyond
\* LONG_MAX / 2, of the long, and hash(-1) is -2
LongBits(neg, mag) ==
    IF mag = <<>> \/ ~neg THEN mag
    ELSE BitsSub([i \in 1..65 |-> IF i = 65 THEN 1 ELSE 0], mag)
IntHash(neg, mag) ==
    IF neg /\ mag = <<1>> THEN LongBits(TRUE, <<0, 1>>) ELSE LongBits(neg, mag)
\* _Py_HashDouble on a float with a fraction: frexp gives v = f * 2^expo with
\* f in [0.5, 1); hipart is the first 31 bits of f and the next 31 bits are
\* added to it, with expo << 15
FloatHash(num) ==
    LET n == Len(num.m)
        hipart == IF n <= 31 THEN BitsShl(num.m, 31 - n) ELSE BitsShr(num.m, n - 31)
        next == IF n <= 31 THEN <<>> ELSE BitsShl(BitsLow(num.m, n - 31), 62 - n)
        expo == n + num.x
        Hash(x) == IntHash(x.neg, x.m)
    IN  Hash(SignedAdd(num.neg, BitsAdd(hipart, next),
                       expo < 0, BitsShl(BitsOf(Abs(expo)), 15)))
\* long_hash on the magnitude of a long: its digits of 30 bits from the
\* highest down, x turned left by 30 of its 64 bits before each digit is
\* added, and 1 added when the sum leaves the 64 bits
LongShift == 30
RECURSIVE LongHashFrom(_, _, _)
LongHashFrom(mag, i, x) ==
    IF i = 0 THEN x
    ELSE LET Wrapped(sum) ==
                 IF Len(sum) > 64 THEN BitsAdd(BitsLow(sum, 64), <<1>>) ELSE sum
         IN  LongHashFrom(mag, i - 1,
                 Wrapped(BitsAdd(BitsAdd(BitsShr(x, 64 - LongShift),
                                         BitsShl(BitsLow(x, 64 - LongShift), LongShift)),
                                 BitsLow(BitsShr(mag, LongShift * (i - 1)), LongShift))))
\* x * sign in 64 bits, and -2 for -1
LongHash(neg, mag) ==
    LET Checked(x) ==
            IF Len(x) = 64 /\ \A i \in 1..64 : x[i] = 1 THEN LongBits(TRUE, <<0, 1>>) ELSE x
    IN  Checked(LongBits(neg, LongHashFrom(mag, (Len(mag) + LongShift - 1) \div LongShift,
                                           <<>>)))
\* _Py_HashDouble on a float without a fraction: (long)intpart, and the hash
\* of PyLong_FromDouble(v) when intpart > LONG_MAX / 2, which is 2^62 as a
\* double
HashOfWhole(neg, mag) ==
    IF Len(mag) > 63 \/ (Len(mag) = 63 /\ \E i \in 1..62 : mag[i] = 1)
    THEN LongHash(neg, mag) ELSE IntHash(neg, mag)
NumHash(num) ==
    IF ~num.float THEN IntHash(num.c < 0, BitsOf(Abs(num.c)))
    ELSE IF num.x >= 0 THEN HashOfWhole(num.neg, BitsShl(num.m, num.x))
    ELSE FloatHash(num)

\* set(steps) and set(frames) under CPython 2.7.  A set is a table of 8
\* slots.  A key goes to slot hash % size, and when that slot holds another
\* key the probe moves on by i = 5*i + perturb + 1, perturb starting as the
\* hash and losing 5 bits at each probe.  So the place of a key depends on the
\* keys added before it; a key equal to one in the table (2.0 after 2) is not
\* put in.
SlotFree == [free |-> TRUE, key |-> FrameInt(0)]
SlotOf(key) == [free |-> FALSE, key |-> key]
\* a table of n free slots
RECURSIVE SetTable(_)
SetTable(n) == IF n = 0 THEN <<>> ELSE Append(SetTable(n - 1), SlotFree)
RECURSIVE SetLookkey(_, _, _, _)
SetLookkey(table, key, i, perturb) ==
    IF table[i + 1].free \/ NumEq(table[i + 1].key, key) THEN i + 1
    ELSE SetLookkey(table, key,
                    (5 * i + BitsValue(BitsLow(perturb, 24)) + 1) % Len(table),
                    BitsShr(perturb, 5))
\* the slot a key is found in or goes to
SetSlot(table, key) ==
    LET Lookkey(hash) ==
            SetLookkey(table, key, BitsValue(BitsLow(hash, 24)) % Len(table), hash)
    IN  Lookkey(NumHash(key))
SetInsert(table, key) ==
    LET Put(slot) ==
            IF table[slot].free
            THEN SubSeq(table, 1, slot - 1) \o <<SlotOf(key)>>
                 \o SubSeq(table, slot + 1, Len(table))
            ELSE table
    IN  Put(SetSlot(table, key))
RECURSIVE SetInsertAll(_, _)
SetInsertAll(table, keys) ==
    IF keys = <<>> THEN table
    ELSE SetInsertAll(SetInsert(table, Head(keys)), Tail(keys))
\* the keys of a table in the order of its slots: the order of iteration
RECURSIVE SetKeysFrom(_, _)
SetKeysFrom(table, i) ==
    IF i > Len(table) THEN <<>>
    ELSE IF table[i].free THEN SetKeysFrom(table, i + 1)
    ELSE <<table[i].key>> \o SetKeysFrom(table, i + 1)
SetKeys(table) == SetKeysFrom(table, 1)
\* the table grows once two thirds of its slots are taken: the new size is the
\* first power of two above 4 times the number of keys, and the keys are put
\* in again in the order of the old slots
RECURSIVE SetNewSize(_, _)
SetNewSize(newsize, minused) ==
    IF newsize <= minused THEN SetNewSize(2 * newsize, minused) ELSE newsize
SetAdd(table, key) ==
    LET Resized(slot, added) ==
            LET used == Len(SetKeys(added))
            IN  IF table[slot].free /\ used * 3 >= Len(added) * 2
                THEN SetInsertAll(SetTable(SetNewSize(8, used * 4)), SetKeys(added))
                ELSE added
    IN  Resized(SetSlot(table, key), SetInsert(table, key))
RECURSIVE SetFrom(_, _)
SetFrom(table, keys) ==
    IF keys = <<>> THEN table ELSE SetFrom(SetAdd(table, Head(keys)), Tail(keys))
\* list(set(nums)): the keys in the order of iteration
SetList(nums) == SetKeys(SetFrom(SetTable(8), nums))
\* for step in set(steps): the steps in the order the loop takes them
StepOrder(steps) == SetList(steps)

\* sorted(nums) of numbers no two of which are equal
RECURSIVE SortedNums(_)
SortedNums(nums) ==
    IF nums = <<>> THEN <<>>
    ELSE LET i == CHOOSE i \in 1..Len(nums) : \A j \in 1..Len(nums) : ~NumLess(nums[j], nums[i])
         IN  <<nums[i]>> \o SortedNums(SubSeq(nums, 1, i - 1) \o SubSeq(nums, i + 1, Len(nums)))
\* sorted(list(set(frames)))
SortedFrames(frames) == SortedNums(SetList(frames))

\* the groupby key of a frame f: str(next(c) - f), cnt being what next(c)
\* returns; c = count(step=step) starts at 0 and adds step at each next()
GroupKey(cnt, f) == NumStr(NumSub(cnt, f))

\* itertools' grouper: reads frames from the list iterator (position idx, 1-based)
\* while their key equals tgt.  It stops at the end of the list, or holding
\* the first frame with another key.
RECURSIVE Grouper(_, _, _, _, _, _)
Grouper(frames, idx, cnt, tgt, step, group) ==
    LET Keyed(key, cnt1) ==
            IF key = tgt
            THEN Grouper(frames, idx + 1, cnt1, tgt, step, Append(group, frames[idx]))
            ELSE [group |-> group, idx |-> idx + 1, cnt |-> cnt1, held |-> TRUE,
                  heldv |-> frames[idx], heldk |-> key]
    IN  IF idx > Len(frames)
        THEN [group |-> group, idx |-> idx, cnt |-> cnt, held |-> FALSE,
              heldv |-> FrameInt(0), heldk |-> <<>>]
        ELSE Keyed(GroupKey(cnt, frames[idx]), NumAdd(cnt, step))

\* the segment appended for a group of 3 or more frames
FoundSegment(segment_frames, step) ==
    _FrangeSegment(segment_frames[1], segment_frames[Len(segment_frames)], step)

\* a slip: a group of 2 frames counts as a segment
IsSegment_pairs(segment_frames) == Len(segment_frames) > 1
\* only count ranges of 3 or more frames
IsSegment(segment_frames) == Len(segment_frames) > 2

\* One pass of the for loop over groupby(frames, key): st holds the list (which
\* the loop body mutates under the iterator), the iterator's position, the
\* count c, the frame groupby holds back, the segments and the number found in
\* this pass.
RECURSIVE GroupbyPass(_, _)
GroupbyPass(st, step) ==
    LET first == IF st.held THEN st.heldv ELSE st.frames[st.idx]
        idx1 == IF st.held THEN st.idx ELSE st.idx + 1
        Body(g) ==
            LET found == IsSegment(g.group)
                missing == \E k \in 1..Len(g.group) : ~NumIn(g.group[k], st.frames)
                Loop(st1) == IF g.held THEN GroupbyPass(st1, step) ELSE st1
            IN  Loop([frames |-> IF found THEN ListRemoveAll(st.frames, g.group)
                                 ELSE st.frames,
                      idx |-> g.idx, cnt |-> g.cnt,
                      held |-> g.held, heldv |-> g.heldv, heldk |-> g.heldk,
                      segments |-> IF found
                                   THEN Append(st.segments, FoundSegment(g.group, step))
                                   ELSE st.segments,
                      num_segments |-> IF found THEN st.num_segments + 1
                                       ELSE st.num_segments,
                      remove_failed |-> st.remove_failed \/ (found /\ missing),
                      passes |-> st.passes])
    IN  IF ~st.held /\ st.idx > Len(st.frames) THEN st
        ELSE Body(Grouper(st.frames, idx1,
                          IF st.held THEN st.cnt ELSE NumAdd(st.cnt, step),
                          IF st.held THEN st.heldk ELSE GroupKey(st.cnt, first),
                          step, <<first>>))

PassStart(frames, segs, failed, passes) ==
    [frames |-> frames, idx |-> 1, cnt |-> FrameInt(0), held |-> FALSE,
     heldv |-> FrameInt(0), heldk |-> <<>>,
     segments |-> segs, num_segments |-> 0, remove_failed |-> failed,
     passes |-> passes + 1]

\* while segments_found: one pass after another for the same step
RECURSIVE StepLoop(_, _)
StepLoop(st, step) ==
    LET Again(p) == IF p.num_segments > 0 THEN StepLoop(p, step) ELSE p
    IN  Again(GroupbyPass(PassStart(st.frames, st.segments, st.remove_failed, st.passes),
                          step))

\* for step in set(steps)
RECURSIVE StepsLoop(_, _)
StepsLoop(st, steps) ==
    IF steps = <<>> THEN st
    ELSE StepsLoop(StepLoop(st, Head(steps)), Tail(steps))

\* a slip: the segments are returned as found
SortByStart_unsorted(segs) == segs
\* sorted(segments, key=lambda f: f.start): a stable sort.  The segment at
\* position i goes behind those with a smaller start and behind those with
\* the same start that stood before it.
SortByStart(segs) ==
    LET n == Len(segs)
        before(i) == {j \in 1..n : \/ NumLess(segs[j].start, segs[i].start)
                                   \/ NumEq(segs[j].start, segs[i].start) /\ j < i}
    IN  [k \in 1..n |-> segs[CHOOSE i \in 1..n : Cardinality(before(i)) = k - 1]]

\* steps = [frames[f] - frames[f-1] for f in range(1, len(frames))]
Steps(frames) == [f \in 1..(Len(frames) - 1) |-> NumSub(frames[f + 1], frames[f])]
\* set(seq): the keys the set holds, one for all the numbers that are equal
\* (2 and 2.0), the one put in first
SeqRange(seq) ==
    LET Keys(keys) == {keys[k] : k \in 1..Len(keys)}
    IN  Keys(SetList(seq))
\* set(steps) as a set
CandidateSteps(frames) == SeqRange(Steps(frames))

\* the loops of _segments_from_frames over the frames once sorted
CompactorLoops(frames) ==
    StepsLoop(PassStart(frames, <<>>, FALSE, 0 - 1), StepOrder(Steps(frames)))
\* the compactor's loops: the pool left over, the stepped segments found, and
\* what happened on the way
CompactorRun(frames_arg) == CompactorLoops(SortedFrames(frames_arg))

\* _segments_from_frames
_segments_from_frames(frames_arg) ==
    LET Sorted(left) ==
            SortByStart(left.segments
                        \o [k \in 1..Len(left.frames) |-> _FrangeSegmentOf(left.frames[k])])
    IN  Sorted(CompactorRun(frames_arg))

(***************************************************************************)
(* The compactor as a pure function: a list of frames drawn from a bounded *)
(* set, in some order and with duplicates, and one call.                   *)
(***************************************************************************)
MaxFrame == 12      \* the frames handed to the compactor are in 0 .. MaxFrame

RECURSIVE Reversed(_)
Reversed(seq) == IF seq = <<>> THEN <<>> ELSE Reversed(Tail(seq)) \o <<Head(seq)>>
\* a list of ints as frames, and a segment of ints
IntFrames(ints) == [k \in 1..Len(ints) |-> FrameInt(ints[k])]
IntSegment(start, stop, step) == _FrangeSegment(FrameInt(start), FrameInt(stop), FrameInt(step))
SetMin(S) == CHOOSE x \in S : \A y \in S : x <= y
\* the ints of a set in ascending order
RECURSIVE SortedList(_)
SortedList(S) == IF S = {} THEN <<>> ELSE <<SetMin(S)>> \o SortedList(S \ {SetMin(S)})
\* arrangements of a set as an argument list: ascending, descending, and every
\* frame twice
Arrangements(S) ==
    {IntFrames(SortedList(S)), IntFrames(Reversed(SortedList(S))),
     IntFrames(Reversed(SortedList(S)) \o SortedList(S))}
\* lists with floats: 0.1, 0.2, 0.3; 0.5, 1.0, 1.5; the ints 1 and 3 around the
\* float 2.0; the int 2 before and behind the float 2.0; 2.4, 4.8, 7.2, 9.6;
\* 0.3, 3.3, 4.3, 5.3, 10.3 with 5.300000000000001, the double next above 5.3
\* (5.3 + 2^-50), which str() writes "5.3" as well
FloatLists ==
    {<<FrameFloat(1, 1, FALSE), FrameFloat(2, 1, FALSE), FrameFloat(3, 1, FALSE)>>,
     <<FrameFloat(15, 1, FALSE), FrameFloat(5, 1, FALSE), FrameFloat(10, 1, FALSE)>>,
     <<FrameInt(1), FrameFloat(20, 1, FALSE), FrameInt(3)>>,
     <<FrameInt(2), FrameFloat(20, 1, FALSE), FrameInt(5)>>,
     <<FrameFloat(20, 1, FALSE), FrameInt(2), FrameInt(5), FrameInt(8)>>,
     <<FrameFloat(24, 1, FALSE), FrameFloat(48, 1, FALSE), FrameFloat(72, 1, FALSE),
       FrameFloat(96, 1, FALSE)>>,
     <<FrameFloat(3, 1, FALSE), FrameFloat(33, 1, FALSE), FrameFloat(43, 1, FALSE),
       FrameFloat(53, 1, FALSE),
       FloatAdd(FrameFloat(53, 1, FALSE), Float(FALSE, <<1>>, 0 - 50)),
       FrameFloat(103, 1, FALSE)>>}

NotCalled == [done |-> FALSE, segments |-> <<>>, remove_failed |-> FALSE]

InitCompactor ==
    /\ \/ \E S \in SUBSET (0..MaxFrame) : frames_in \in Arrangements(S)
       \/ frames_in \in FloatLists
    /\ result = NotCalled
    /\ rng = BaseRange__init__(NoItem, NoItem, IntItem(1))
    /\ orig = rng /\ revs = 0 /\ op = NoOp /\ gen = NoGen
    /\ segments = <<>> /\ hung = FALSE /\ last = [name |-> "none", ok |-> TRUE, err |-> "", pre |-> <<>>,
                 arg |-> [kind |-> "number", num |-> NoFrame, spec |-> <<>>, segs |-> <<>>,
                          items |-> <<>>],
                 calls |-> 0, prev |-> "none"]
    /\ CtorIdle /\ PropertyIdle /\ ParserIdle
    /\ EqualsIdle /\ PassesIdle

Compact ==
    /\ ~result.done
    /\ result' = [done |-> TRUE, segments |-> _segments_from_frames(frames_in),
                  remove_failed |-> CompactorRun(frames_in).remove_failed]
    /\ UNCHANGED <<frames_in, rangeVars, frangeVars,
                 ctorVars, propertyVars, parserVars,
                 equalVars, passVars>>

NextCompactor == Compact

SpecCompactor == InitCompactor /\ [][NextCompactor]_vars

(***************************************************************************)
(* frange/__init__.py: parsing a spec string.                              *)
(***************************************************************************)
\* \s of the regex: [ \t\n\r\f\v].  The vertical tab has no escape in a TLA+
\* string and is written as the two characters \v.
IsSpace(ch) == ch \in {" ", "\t", "\n", "\r", "\f", "\\v"}

\* \d*: the position after the digits that start at p
RECURSIVE SkipDigits(_, _)
SkipDigits(str, p) ==
    IF p <= Len(str) /\ IsDigit(str[p]) THEN SkipDigits(str, p + 1) ELSE p
\* FRAME_SPEC, -?\d*\.?\d*, matched greedily at p: the position after the
\* longest match.  Every shorter prefix of that match matches FRAME_SPEC too.
FrameSpecEnd(str, p) ==
    LET p1 == IF p <= Len(str) /\ str[p] = "-" THEN p + 1 ELSE p
        p2 == SkipDigits(str, p1)
        p3 == IF p2 <= Len(str) /\ str[p2] = "." THEN p2 + 1 ELSE p2
    IN  SkipDigits(str, p3)

\* $ matches at the end of the string and also before a newline that ends
\* it; FRAME_SPEC takes no newline, so a string that ends in one is matched
\* up to it
MatchEnd(str) ==
    IF str # <<>> /\ str[Len(str)] = "\n" THEN Len(str) - 1 ELSE Len(str)
\* FRANGE_REGEX, ^(F)(-?(F)(:(F))?)?$ : the ways to match the string up to $.
\* l1 is the length of group 1; has2 says group 2 took part, with its dash
\* taken or not, l3 the length of group 3 and has4 the presence of (:(F)).
FrangeMatches(str) ==
    {m \in [l1 : 0..Len(str), has2 : BOOLEAN, dash : BOOLEAN,
            l3 : 0..Len(str), has4 : BOOLEAN] :
        /\ m.l1 <= FrameSpecEnd(str, 1) - 1
        /\ ~m.has2 => (m.l1 = MatchEnd(str) /\ ~m.dash /\ m.l3 = 0 /\ ~m.has4)
        /\ m.has2 =>
            LET q == m.l1 + 1
                q3 == IF m.dash THEN q + 1 ELSE q
                q4 == q3 + m.l3
            IN  /\ m.dash => (q <= Len(str) /\ str[q] = "-")
                /\ q4 <= FrameSpecEnd(str, q3)
                /\ m.has4 => /\ q4 <= Len(str) /\ str[q4] = ":"
                             /\ FrameSpecEnd(str, q4 + 1) = MatchEnd(str) + 1
                /\ ~m.has4 => q4 = MatchEnd(str) + 1}
\* the backtracking order of the greedy quantifiers: the match found is the
\* one of highest rank
MatchRank(str, m) ==
    ((((m.l1 * 2 + BoolVal(m.has2)) * 2 + BoolVal(m.dash)) * (Len(str) + 1) + m.l3) * 2)
        + BoolVal(m.has4)
BestMatch(str, matches) ==
    CHOOSE m \in matches : \A o \in matches : MatchRank(str, o) <= MatchRank(str, m)

\* match.group(n): a string, or None
None == [some |-> FALSE, str |-> <<>>]
Some(str) == [some |-> TRUE, str |-> str]
MatchGroup1(str, m) == Some(SubSeq(str, 1, m.l1))
MatchGroup3(str, m) ==
    LET q3 == m.l1 + 1 + BoolVal(m.dash)
    IN  IF m.has2 THEN Some(SubSeq(str, q3, q3 + m.l3 - 1)) ELSE None
MatchGroup5(str, m) ==
    LET q4 == m.l1 + 1 + BoolVal(m.dash) + m.l3
    IN  IF m.has4 THEN Some(SubSeq(str, q4 + 1, MatchEnd(str))) ELSE None

\* int(frame_str) succeeds on an optional '-' and one or more digits (of the
\* strings FRAME_SPEC matches, which are made of '-', digits and '.')
IsIntLiteral(str) ==
    LET p == IF str # <<>> /\ str[1] = "-" THEN 2 ELSE 1
    IN  p <= Len(str) /\ \A k \in p..Len(str) : IsDigit(str[k])
RECURSIVE DigitsValue(_)
DigitsValue(str) ==
    IF str = <<>> THEN 0
    ELSE 10 * DigitsValue(SubSeq(str, 1, Len(str) - 1)) + DigitValue(str[Len(str)])
IntValue(str) ==
    IF str[1] = "-" THEN 0 - DigitsValue(Tail(str)) ELSE DigitsValue(str)
\* float(frame_str) succeeds on an optional '-', digits, an optional '.' and
\* digits, with one digit at least
IsFloatLiteral(str) ==
    FrameSpecEnd(str, 1) = Len(str) + 1 /\ \E k \in 1..Len(str) : IsDigit(str[k])
\* float(frame_str): the double nearest to the digits as a whole number over
\* 10 to the number of digits behind the '.'
FloatValue(str) ==
    LET point == IF \E k \in 1..Len(str) : str[k] = "."
                 THEN CHOOSE k \in 1..Len(str) : str[k] = "." ELSE Len(str)
    IN  DoubleOfDecimal(str[1] = "-", DigitsBits(SelectSeq(str, IsDigit)), Len(str) - point)

NumResult(ok, num) == [ok |-> ok, num |-> num]
\* _num_from_frame_str: int(frame_str), and float(frame_str) when int() raises
\* ValueError; the ValueError of float() is raised to the caller
_num_from_frame_str(frame_str, default) ==
    IF ~frame_str.some THEN NumResult(TRUE, default)
    ELSE IF IsIntLiteral(frame_str.str) THEN NumResult(TRUE, FrameInt(IntValue(frame_str.str)))
    ELSE IF IsFloatLiteral(frame_str.str) THEN NumResult(TRUE, FloatValue(frame_str.str))
    ELSE NumResult(FALSE, FrameInt(0))

\* SPEC_SEPARATOR_REGEX.split(spec): cut at each comma, dropping the white
\* space around it
RECURSIVE TrailingSpaces(_, _)
TrailingSpaces(str, p) ==
    IF p >= 1 /\ IsSpace(str[p]) THEN 1 + TrailingSpaces(str, p - 1) ELSE 0
RECURSIVE LeadingSpaces(_, _)
LeadingSpaces(str, p) ==
    IF p <= Len(str) /\ IsSpace(str[p]) THEN 1 + LeadingSpaces(str, p + 1) ELSE 0
RECURSIVE SeparatorSplit(_)
SeparatorSplit(str) ==
    IF \A k \in 1..Len(str) : str[k] # ","
    THEN <<str>>
    ELSE LET comma == CHOOSE k \in 1..Len(str) :
                          str[k] = "," /\ \A j \in 1..(k - 1) : str[j] # ","
             first == comma - TrailingSpaces(str, comma - 1)
             after == comma + LeadingSpaces(str, comma + 1)
         IN  <<SubSeq(str, 1, first - 1)>>
                 \o SeparatorSplit(SubSeq(str, after + 1, Len(str)))

SegsResult(ok, err, segs) == [ok |-> ok, err |-> err, segs |-> segs]
\* the body of the for loop of _segments_from_spec, for one segment_str
SegmentFromStr(segment_str) ==
    LET m == BestMatch(segment_str, FrangeMatches(segment_str))
        Segment(start, stop, step) ==
            IF ~start.ok \/ ~stop.ok \/ ~step.ok
            THEN SegsResult(FALSE, "ValueError", <<>>)
            ELSE IF NumIsZero(step.num) THEN SegsResult(FALSE, "ValueError", <<>>)
            ELSE SegsResult(TRUE, "", <<_FrangeSegment(start.num, stop.num, step.num)>>)
        Stop(start) == _num_from_frame_str(MatchGroup3(segment_str, m), start.num)
        From(start) ==
            Segment(start, Stop(start),
                    _num_from_frame_str(MatchGroup5(segment_str, m), FrameInt(1)))
    IN  IF FrangeMatches(segment_str) = {} THEN SegsResult(FALSE, "SyntaxError", <<>>)
        ELSE From(_num_from_frame_str(MatchGroup1(segment_str, m), FrameInt(0)))

RECURSIVE SegmentsFromStrs(_)
SegmentsFromStrs(strs) ==
    LET Extended(head, rest) ==
            IF ~head.ok THEN head
            ELSE IF ~rest.ok THEN rest
            ELSE SegsResult(TRUE, "", head.segs \o rest.segs)
    IN  IF strs = <<>> THEN SegsResult(TRUE, "", <<>>)
        ELSE Extended(SegmentFromStr(Head(strs)), SegmentsFromStrs(Tail(strs)))
\* _segments_from_spec
_segments_from_spec(spec) == SegmentsFromStrs(SeparatorSplit(spec))

(***************************************************************************)
(* frange/__init__.py: the arguments of add() and remove(), and Frange.    *)
(***************************************************************************)
\* an argument: a number, a spec string, a _FrangeSegment, a Frange (its
\* segments), or a list of arguments
ArgNumber(n) == [kind |-> "number", num |-> n, spec |-> <<>>, segs |-> <<>>, items |-> <<>>]
ArgSpec(str) == [kind |-> "spec", num |-> FrameInt(0), spec |-> str, segs |-> <<>>, items |-> <<>>]
ArgSegment(seg) ==
    [kind |-> "segment", num |-> FrameInt(0), spec |-> <<>>, segs |-> <<seg>>, items |-> <<>>]
ArgFrange(segs) ==
    [kind |-> "frange", num |-> FrameInt(0), spec |-> <<>>, segs |-> segs, items |-> <<>>]
ArgList(items) ==
    [kind |-> "list", num |-> FrameInt(0), spec |-> <<>>, segs |-> <<>>, items |-> items]

RECURSIVE _segments_from_arg(_)
RECURSIVE SegmentsFromArgs(_)
_segments_from_arg(frames_arg) ==
    IF frames_arg.kind = "frange" THEN SegsResult(TRUE, "", frames_arg.segs)
    ELSE IF frames_arg.kind = "segment" THEN SegsResult(TRUE, "", frames_arg.segs)
    ELSE IF frames_arg.kind = "spec" THEN _segments_from_spec(frames_arg.spec)
    ELSE IF frames_arg.kind = "number"
    THEN SegsResult(TRUE, "", <<_FrangeSegmentOf(frames_arg.num)>>)
    ELSE SegmentsFromArgs(frames_arg.items)
\* a slip: the segments of a list are gathered back to front
SegmentsFromArgs_reversed(args) ==
    LET Extended(head, rest) ==
            IF ~head.ok THEN head
            ELSE IF ~rest.ok THEN rest
            ELSE SegsResult(TRUE, "", rest.segs \o head.segs)
    IN  IF args = <<>> THEN SegsResult(TRUE, "", <<>>)
        ELSE Extended(_segments_from_arg(Head(args)), SegmentsFromArgs(Tail(args)))
SegmentsFromArgs(args) ==
    LET Extended(head, rest) ==
            IF ~head.ok THEN head
            ELSE IF ~rest.ok THEN rest
            ELSE SegsResult(TRUE, "", head.segs \o rest.segs)
    IN  IF args = <<>> THEN SegsResult(TRUE, "", <<>>)
        ELSE Extended(_segments_from_arg(Head(args)), SegmentsFromArgs(Tail(args)))

\* Frange.frames
Frange_frames(segs) == _frames_from_segments(segs)

\* [f for f in cur_frames if not f in frames_to_remove], frames_to_remove
\* being a list
RECURSIVE FilterOut(_, _)
FilterOut(frames, frames_to_remove) ==
    IF frames = <<>> THEN <<>>
    ELSE IF NumIn(Head(frames), frames_to_remove)
    THEN FilterOut(Tail(frames), frames_to_remove)
    ELSE <<Head(frames)>> \o FilterOut(Tail(frames), frames_to_remove)
\* _FrangeSegment.remove
_FrangeSegment_remove(segment, frames_to_remove) ==
    _segments_from_frames(FilterOut(SegmentFrames(segment), frames_to_remove))

\* the for loop of Frange.remove over self._segments
RECURSIVE UpdatedSegments(_, _)
UpdatedSegments(segs, frames_to_remove) ==
    IF segs = <<>> THEN <<>>
    ELSE _FrangeSegment_remove(Head(segs), frames_to_remove)
             \o UpdatedSegments(Tail(segs), frames_to_remove)

\* Frange.compact (of a call that returns)
Frange_compact(segs) == _segments_from_frames(Frange_frames(segs))

(***************************************************************************)
(* The Frange collection as a state machine: created empty, then add(),    *)
(* remove() and compact() with arguments drawn from a bounded set.         *)
(***************************************************************************)
MaxCalls == 3       \* the number of calls made on the collection

FrangeArgs ==
    {ArgNumber(FrameInt(3)),
     ArgNumber(FrameFloat(5, 1, FALSE)),
     ArgSpec(<<"0", "-", "6">>),
     ArgSpec(<<"1", "-", "7", ":", "2">>),
     ArgSpec(<<"6", "-", "0", ":", "-", "3">>),
     ArgSpec(<<"0", "-", "2", " ", ",", " ", "4", "-", "8", ":", "2">>),
     ArgSpec(<<"4", "-", "1">>),
     ArgSpec(<<"2", "-", "4", ":", "0">>),
     ArgSpec(<<"1", "-", "3", ",", "x">>),
     ArgSpec(<<"5">>),
     ArgSpec(<<"1", "-", "2", ":", ".", "5">>),
     ArgSpec(<<"2", ".", "0", "-", "3", ":", ".", "5">>),
     ArgSpec(<<"0", ".", "1", "-", "0", ".", "7", ":", "0", ".", "2">>),
     ArgSegment(IntSegment(2, 5, 3)),
     ArgFrange(<<IntSegment(5, 7, 1), IntSegment(1, 1, 1)>>),
     ArgList(<<ArgNumber(FrameInt(6)), ArgSpec(<<"2", "-", "4">>)>>),
     ArgList(<<ArgNumber(FrameInt(1)), ArgNumber(FrameFloat(20, 1, FALSE)),
               ArgNumber(FrameInt(3))>>),
     ArgList(<<ArgList(<<ArgNumber(FrameInt(7)), ArgSegment(IntSegment(0, 4, 2))>>),
               ArgSpec(<<"8", "-", "6", ":", "-", "1">>)>>),
     ArgList(<<ArgNumber(FrameInt(6)), ArgSpec(<<"x">>)>>)}

\* what _segments_from_arg returns for each argument of the model
Resolved == [arg \in FrangeArgs |-> _segments_from_arg(arg)]

\* the record of a call: its name, whether it returned, the exception, the
\* segments before it, its argument, how many calls were made so far, and the
\* name of the call before it
Call(name, ok, err, pre, arg) ==
    [name |-> name, ok |-> ok, err |-> err, pre |-> pre, arg |-> arg,
     calls |-> last.calls + 1, prev |-> last.name]
NoCall == [name |-> "none", ok |-> TRUE, err |-> "", pre |-> <<>>, arg |-> ArgNumber(FrameInt(0)),
           calls |-> 0, prev |-> "none"]

Init ==
    /\ segments = <<>>
    /\ hung = FALSE
    /\ last = NoCall
    /\ rng = BaseRange__init__(NoItem, NoItem, IntItem(1))
    /\ orig = rng /\ revs = 0 /\ op = NoOp /\ gen = NoGen
    /\ frames_in = <<>> /\ result = NotCalled
    /\ CtorIdle /\ PropertyIdle /\ ParserIdle
    /\ EqualsIdle /\ PassesIdle

\* the body of Frange.remove once the argument is resolved: the frames of its
\* segments, list(set(...)), and the for loop over self._segments
Frange_remove(segs, segments_to_remove) ==
    UpdatedSegments(segs, SetList(_frames_from_segments(segments_to_remove)))
\* Frange.add: the argument is resolved first, then the list is extended
Add ==
    /\ ~hung /\ last.calls < MaxCalls
    /\ \E arg \in FrangeArgs :
        LET Extend(new) ==
                /\ segments' = IF new.ok THEN segments \o new.segs ELSE segments
                /\ last' = Call("add", new.ok, new.err, segments, arg)
        IN  Extend(Resolved[arg])
    /\ UNCHANGED <<hung, rangeVars, compactorVars,
                 ctorVars, propertyVars, parserVars,
                 equalVars, passVars>>

\* Frange.remove: the argument is resolved and iterated, then every segment of
\* the collection is iterated, filtered and compacted; a segment whose
\* iteration never ends leaves the call hanging
Remove ==
    /\ ~hung /\ last.calls < MaxCalls
    /\ \E arg \in FrangeArgs :
        LET Update(segments_to_remove) ==
                IF ~segments_to_remove.ok
                THEN /\ last' = Call("remove", FALSE, segments_to_remove.err, segments, arg)
                     /\ UNCHANGED <<segments, hung>>
                ELSE IF AnyDiverges(segments_to_remove.segs) \/ AnyDiverges(segments)
                THEN /\ hung' = TRUE
                     /\ last' = Call("remove", FALSE, "", segments, arg)
                     /\ UNCHANGED segments
                ELSE /\ segments' = Frange_remove(segments, segments_to_remove.segs)
                     /\ last' = Call("remove", TRUE, "", segments, arg)
                     /\ UNCHANGED hung
        IN  Update(Resolved[arg])
    /\ UNCHANGED <<rangeVars, compactorVars,
                 ctorVars, propertyVars, parserVars,
                 equalVars, passVars>>

\* Frange.compact
CompactAll ==
    /\ ~hung /\ last.calls < MaxCalls
    /\ IF AnyDiverges(segments)
       THEN /\ hung' = TRUE
            /\ last' = Call("compact", FALSE, "", segments, ArgNumber(FrameInt(0)))
            /\ UNCHANGED segments
       ELSE /\ segments' = Frange_compact(segments)
            /\ last' = Call("compact", TRUE, "", segments, ArgNumber(FrameInt(0)))
            /\ UNCHANGED hung
    /\ UNCHANGED <<rangeVars, compactorVars,
                 ctorVars, propertyVars, parserVars,
                 equalVars, passVars>>

Next == Add \/ Remove \/ CompactAll

Spec == Init /\ [][Next]_vars

(***************************************************************************)
(* What the other variables hold in the specifications below.              *)
(***************************************************************************)
RangeIdle ==
    /\ rng = BaseRange__init__(NoItem, NoItem, IntItem(1))
    /\ orig = rng /\ revs = 0 /\ op = NoOp /\ gen = NoGen
CompactorIdle == frames_in = <<>> /\ result = NotCalled
FrangeIdle == segments = <<>> /\ hung = FALSE /\ last = NoCall

(***************************************************************************)
(* openrange/base.py: the constructor called with one, two or three        *)
(* arguments, stop possibly None and step possibly zero.                   *)
(***************************************************************************)
\* an argument of the constructor: None or a number
NoneArg == [none |-> TRUE, item |-> NoItem]
ItemArg(item) == [none |-> FALSE, item |-> item]

CtorResult(ok, err, r) == [ok |-> ok, err |-> err, rng |-> r]
\* a slip: the constructor without the test of step
BaseRange_new_unchecked(args) ==
    LET start == IF Len(args) >= 2 THEN args[1] ELSE ItemArg(IntItem(0))
        stop == IF Len(args) >= 2 THEN args[2] ELSE args[1]
        step == IF Len(args) = 3 THEN args[3] ELSE ItemArg(IntItem(1))
        none == BaseRange__init__(NoItem, NoItem, IntItem(1))
    IN  IF Len(args) \notin 1..3 THEN CtorResult(FALSE, "TypeError", none)
        ELSE IF stop.none THEN CtorResult(FALSE, "ValueError", none)
        ELSE CtorResult(TRUE, "", BaseRange__init__(start.item, stop.item, step.item))
\* BaseRange.__init__(*args): start defaults to 0 and step to 1; TypeError
\* unless there are one to three arguments, ValueError when stop is None, then
\* ValueError when step is 0
BaseRange_new(args) ==
    LET start == IF Len(args) >= 2 THEN args[1] ELSE ItemArg(IntItem(0))
        stop == IF Len(args) >= 2 THEN args[2] ELSE args[1]
        step == IF Len(args) = 3 THEN args[3] ELSE ItemArg(IntItem(1))
        none == BaseRange__init__(NoItem, NoItem, IntItem(1))
    IN  IF Len(args) \notin 1..3 THEN CtorResult(FALSE, "TypeError", none)
        ELSE IF stop.none THEN CtorResult(FALSE, "ValueError", none)
        ELSE IF DecIsZero(_step_to_num(step.item)) THEN CtorResult(FALSE, "ValueError", none)
        ELSE CtorResult(TRUE, "", BaseRange__init__(start.item, stop.item, step.item))

ZeroItems == {IntItem(0), FloatItem(0, 1)}
StartArgs == {ItemArg(i) : i \in Items}
StopArgs == {ItemArg(i) : i \in Items} \cup {NoneArg}
StepArgs == {ItemArg(i) : i \in StepItems \cup ZeroItems}
CtorArgs ==
    {<<>>} \cup {<<stop>> : stop \in StopArgs}
        \cup {<<start, stop>> : start \in StartArgs, stop \in StopArgs}
        \cup {<<start, stop, step>> : start \in StartArgs, stop \in StopArgs,
                                      step \in StepArgs}

InitConstruct ==
    /\ ctor = NoCtor
    /\ RangeIdle /\ CompactorIdle /\ FrangeIdle /\ PropertyIdle /\ ParserIdle
    /\ EqualsIdle /\ PassesIdle

\* Range(*args): the instance exists only when __init__ returns
Construct ==
    /\ ~ctor.called
    /\ \E args \in CtorArgs :
        LET res == BaseRange_new(args) IN
        /\ ctor' = [called |-> TRUE, args |-> args, ok |-> res.ok, err |-> res.err]
        /\ rng' = res.rng
        /\ orig' = res.rng
    /\ UNCHANGED <<revs, op, gen, compactorVars, frangeVars, propertyVars, parserVars,
                 equalVars, passVars>>

NextConstruct == Construct

SpecConstruct == InitConstruct /\ [][NextConstruct]_vars

(***************************************************************************)
(* rangetools/base.py: Range, whose start, stop and step are properties    *)
(* with setters.  The numbers are Python ints.                             *)
(***************************************************************************)
\* Range.__init__ with numeric start, stop and step, step != 0
RtRange(start, stop, step) == [start |-> start, stop |-> stop, step |-> step]
RtNumbers == (0 - MaxInt)..MaxInt

InitProperties ==
    /\ \E start \in RtNumbers, stop \in RtNumbers, step \in RtNumbers \ {0} :
           prog = RtRange(start, stop, step)
    /\ RangeIdle /\ CompactorIdle /\ FrangeIdle /\ CtorIdle /\ ParserIdle
    /\ EqualsIdle /\ PassesIdle

\* the setters test isinstance(value, Number) and assign
SetStart ==
    /\ \E start \in RtNumbers : prog' = [prog EXCEPT !.start = start]
    /\ UNCHANGED <<rangeVars, compactorVars, frangeVars, ctorVars, parserVars,
                 equalVars, passVars>>
SetStop ==
    /\ \E stop \in RtNumbers : prog' = [prog EXCEPT !.stop = stop]
    /\ UNCHANGED <<rangeVars, compactorVars, frangeVars, ctorVars, parserVars,
                 equalVars, passVars>>
SetStep ==
    /\ \E step \in RtNumbers : prog' = [prog EXCEPT !.step = step]
    /\ UNCHANGED <<rangeVars, compactorVars, frangeVars, ctorVars, parserVars,
                 equalVars, passVars>>
\* Range.reverse
ReverseProperties ==
    /\ prog' = RtRange(prog.stop, prog.start, prog.step * (0 - 1))
    /\ UNCHANGED <<rangeVars, compactorVars, frangeVars, ctorVars, parserVars,
                 equalVars, passVars>>

NextProperties == SetStart \/ SetStop \/ SetStep \/ ReverseProperties

SpecProperties == InitProperties /\ [][NextProperties]_vars

(***************************************************************************)
(* frange/__init__.py: the string form of a collection, and a collection   *)
(* made from a spec string, turned into a string and made again from that  *)
(* string.                                                                 *)
(***************************************************************************)
\* _FrangeSegment.spec
_FrangeSegment_spec(seg) ==
    LET Spec_(start, stop, step) ==
            IF start = stop THEN start
            ELSE start \o <<"-">> \o stop
                     \o (IF step # <<"1">> /\ step # <<"1", ".", "0">>
                         THEN <<":">> \o step ELSE <<>>)
    IN  Spec_(NumStr(seg.start), NumStr(seg.stop), NumStr(seg.step))

\* separator.join(strs)
RECURSIVE Join(_, _)
Join(strs, separator) ==
    IF strs = <<>> THEN <<>>
    ELSE IF Len(strs) = 1 THEN strs[1]
    ELSE strs[1] \o separator \o Join(Tail(strs), separator)
\* Frange.__str__
Frange__str__(segs, separator) ==
    Join([k \in 1..Len(segs) |-> _FrangeSegment_spec(segs[k])], separator)

\* Frange(frames_arg, separator) with a string: the segments of the new
\* collection.  An empty string adds nothing; the separator is only stored.
Frange_new(frames_arg, separator) ==
    IF frames_arg = <<>> THEN SegsResult(TRUE, "", <<>>)
    ELSE _segments_from_arg(ArgSpec(frames_arg))

MaxTokens == 2      \* a spec string of the model has 1 .. MaxTokens tokens

Tokens ==
    {<<"1", "2">>,
     <<"1", "-", "3">>,
     <<"1", "-", "9", ":", "3">>,
     <<"2", "0", "-", "3", "0", ":", "2">>,
     <<"7", "-", "1", ":", "-", "2">>,
     <<"-", "3", "-", "-", "1">>,
     <<"3", "-", "3">>,
     <<"3", "-", "3", ":", "2">>,
     <<"2", "-", "4", ":", "0">>,
     <<"1", ".", "5", "-", "3", ":", ".", "5">>,
     <<"1", ".", "0", "0", "0", "0", "0", "0", "0", "0", "0", "0", "0", "0", "1", "-", "3">>,
     <<"4", "-", "6", "\n">>,
     <<"x">>,
     <<"1", "-">>,
     <<>>}
Joiners == {<<",">>, <<" ", ",", "\t">>}
RECURSIVE SpecStrings(_)
SpecStrings(n) ==
    IF n <= 1 THEN Tokens
    ELSE LET shorter == SpecStrings(n - 1)
         IN  shorter \cup {str \o j \o tok : str \in shorter, j \in Joiners, tok \in Tokens}
Separators == {<<",">>, <<",", " ">>, <<";">>}

InitParser ==
    /\ spec_in \in SpecStrings(MaxTokens)
    /\ sep \in Separators
    /\ col = NoCol
    /\ RangeIdle /\ CompactorIdle /\ FrangeIdle /\ CtorIdle /\ PropertyIdle
    /\ EqualsIdle /\ PassesIdle

\* _segments_from_spec(spec_in)
ParseSpec ==
    /\ col.stage = "none"
    /\ LET Parsed(res) ==
               col' = [col EXCEPT !.stage = "parsed", !.ok = res.ok, !.err = res.err,
                                  !.segs = res.segs]
       IN  Parsed(_segments_from_spec(spec_in))
    /\ UNCHANGED <<spec_in, sep, rangeVars, compactorVars, frangeVars, ctorVars,
                   propertyVars,
                 equalVars, passVars>>
\* Frange(spec_in, separator=sep)
NewFrange ==
    /\ col.stage = "none"
    /\ LET Made(res) ==
               col' = [col EXCEPT !.stage = "made", !.ok = res.ok, !.err = res.err,
                                  !.segs = res.segs]
       IN  Made(Frange_new(spec_in, sep))
    /\ UNCHANGED <<spec_in, sep, rangeVars, compactorVars, frangeVars, ctorVars,
                   propertyVars,
                 equalVars, passVars>>
\* str() of the collection made
Str ==
    /\ col.stage = "made" /\ col.ok
    /\ col' = [col EXCEPT !.stage = "str", !.text = Frange__str__(col.segs, sep)]
    /\ UNCHANGED <<spec_in, sep, rangeVars, compactorVars, frangeVars, ctorVars,
                   propertyVars,
                 equalVars, passVars>>
\* Frange(text, separator=sep) on the string str() returned
NewFrangeAgain ==
    /\ col.stage = "str"
    /\ LET Made(res) ==
               col' = [col EXCEPT !.stage = "again", !.again_ok = res.ok,
                                  !.again_err = res.err, !.again = res.segs]
       IN  Made(Frange_new(col.text, sep))
    /\ UNCHANGED <<spec_in, sep, rangeVars, compactorVars, frangeVars, ctorVars,
                   propertyVars,
                 equalVars, passVars>>

NextParser == ParseSpec \/ NewFrange \/ Str \/ NewFrangeAgain

SpecParser == InitParser /\ [][NextParser]_vars

(***************************************************************************)
(* What the claims about the compactor compare the code with.              *)
(***************************************************************************)
\* a number as the one record that stands for its value: the int for a float
\* without a fraction (2.0 and 2, -0.0 and 0 are the same number)
Value(num) ==
    IF num.float /\ num.x >= 0
    THEN FrameInt(IF num.neg THEN 0 - BitsValue(BitsShl(num.m, num.x))
                  ELSE BitsValue(BitsShl(num.m, num.x)))
    ELSE num
\* the numbers of a list, as a set
ValueSet(frames) == {Value(frames[k]) : k \in 1..Len(frames)}
\* the frames of all segments of a list, as a set
SegmentsFrameSet(segs) == UNION {ValueSet(SegmentFrames(segs[k])) : k \in 1..Len(segs)}
\* all frames are ints, and the ints
AllInts(frames) == \A k \in 1..Len(frames) : ~frames[k].float
Ints(frames) == {frames[k].c : k \in 1..Len(frames)}

\* the arithmetic progressions of 3 or more members that lie inside S
Progression(a, d, n) == {a + i * d : i \in 0..(n - 1)}
ProgressionsIn(S) ==
    {P \in {Progression(a, d, n) : a \in S, d \in 1..MaxFrame, n \in 3..(MaxFrame + 1)} :
        P \subseteq S}
SetMinOf(T) == CHOOSE x \in T : \A y \in T : x <= y
\* the least number of segments (singletons, or progressions of 3 or more
\* members, all inside S) whose union covers R
RECURSIVE MinCover(_, _)
MinCover(R, S) ==
    IF R = {} THEN 0
    ELSE LET x == SetMinOf(R)
             pieces == {{x}} \cup {P \in ProgressionsIn(S) : x \in P}
         IN  1 + SetMinOf({MinCover(R \ P, S) : P \in pieces})

\* C1: the union of the items obtained by iterating every segment the
\* compactor returns is exactly the set of input numbers: none added, none
\* lost, whatever the order and the duplicates of the input.
C1_CompactionCorrect ==
    result.done => SegmentsFrameSet(result.segments) = ValueSet(frames_in)
\* what holds: the same, of the lists that hold ints only
C1_CompactionCorrectInts ==
    (result.done /\ AllInts(frames_in)) =>
        SegmentsFrameSet(result.segments) = ValueSet(frames_in)
C1_IntsCompacted ==
    /\ result.done
    /\ Len(frames_in) > Cardinality(SeqRange(frames_in))
    /\ \E k \in 1..Len(result.segments) : result.segments[k].step.c >= 2
    /\ \E k \in 1..Len(result.segments) :
           result.segments[k].start = result.segments[k].stop

\* C2: the number of segments the compactor returns is the least possible
\* among the lists of segments (singletons or progressions of 3 or more
\* members) whose union is exactly the input set.
C2_CompactionMinimal ==
    (result.done /\ AllInts(frames_in)) =>
        Len(result.segments) = MinCover(Ints(frames_in), Ints(frames_in))


(***************************************************************************)
(* What the claims about the progression compare the code with: the        *)
(* arithmetic sequence start + k*step, written on integers scaled to a     *)
(* common number of decimal places.                                        *)
(***************************************************************************)
Places(r) == Max(Max(r.start.e, r.stop.e), r.step.e)
\* the number of k >= 0 with start + k*step between start and stop inclusive
LatticeCount(r) ==
    LET e == Places(r)
        a == Coef(r.start, e)
        b == Coef(r.stop, e)
        s == Coef(r.step, e)
    IN  IF s > 0 THEN (IF a <= b THEN ((b - a) \div s) + 1 ELSE 0)
        ELSE (IF a >= b THEN ((a - b) \div (0 - s)) + 1 ELSE 0)
\* item is numerically start + k*step
IsLatticeItem(r, item, k) ==
    LET e == Max(Places(r), item.e)
    IN  Coef(Dec(item.c, item.e), e) = Coef(r.start, e) + k * Coef(r.step, e)
Fresh == revs = 0
Occurs(item, items) == \E k \in 1..Len(items) : ItemEq(items[k], item)

\* C3: length() of a freshly constructed Progression equals the number of
\* items produced by iterating it, in either direction and whether or not
\* stop lies on the step lattice.
C3_LengthLaw ==
    (op.name = "len" /\ Fresh) =>
        (op.ok /\ op.val = Len(BaseRange__iter__(rng)))

\* C4: iterating a freshly constructed Progression yields, in order, exactly
\* the values start + k*step (k = 0, 1, ...) between start and stop inclusive
\* in the direction of step: stop itself is included when it is on the
\* lattice, start == stop yields [start], and a step pointing away from stop
\* yields nothing.
C4_IterationLattice ==
    ((op.name = "iter" \/ (op.name = "next" /\ ~op.ok)) /\ Fresh) =>
        /\ Len(op.items) = LatticeCount(rng)
        /\ \A k \in 1..Len(op.items) : IsLatticeItem(rng, op.items[k], k - 1)
        /\ DecEq(rng.start, rng.stop) =>
               (Len(op.items) = 1 /\ op.items[1] = _num_to_item(rng.start))
        /\ (~DecEq(rng.start, rng.stop)
              /\ (rng.step.c > 0) # DecLe(rng.start, rng.stop)) => op.items = <<>>
        /\ (DecRemIsZero(DecSub(rng.stop, rng.start), rng.step) /\ op.items # <<>>) =>
               ItemEq(op.items[Len(op.items)], _num_to_item(rng.stop))
C4_Witness ==
    /\ op.name = "iter" /\ Fresh
    /\ Len(op.items) >= 3
    /\ ItemEq(op.items[Len(op.items)], _num_to_item(rng.stop))
    /\ rng.step.c < 0

\* C7: for a freshly constructed Progression and any value x, contains(x) is
\* true iff x occurs in the iteration iff index(x) succeeds; a successful
\* index(x) is the 0-based position of x in the iteration, and a failing one
\* raises ValueError.
C7_ContainsIndex ==
    /\ (op.name = "contains" /\ Fresh) =>
           /\ (op.val = 1) <=> Occurs(op.arg, BaseRange__iter__(rng))
           /\ (op.val = 1) <=> BaseRange_index(rng, op.arg).ok
    /\ (op.name = "index" /\ Fresh) =>
           /\ op.ok <=> Occurs(op.arg, BaseRange__iter__(rng))
           /\ op.ok <=> BaseRange__contains__(rng, op.arg)
           /\ op.ok => /\ op.val + 1 \in 1..Len(BaseRange__iter__(rng))
                       /\ ItemEq(BaseRange__iter__(rng)[op.val + 1], op.arg)
           /\ ~op.ok => op.err = "ValueError"
C7_Witness ==
    /\ op.name = "index" /\ Fresh /\ op.ok /\ op.val >= 2
    /\ ~op.arg.int

\* C8: for a Progression of length n, getAt(i) is the i-th item of the
\* iteration for 0 <= i < n and the (n+i)-th for -n <= i < 0, and it raises
\* IndexError for every i >= n and every i < -n.  (Stated for progressions on
\* which length() agrees with the iteration.)
C8_PositionalAccess ==
    (op.name = "getitem" /\ Fresh /\ BuiltinLen(rng).ok
        /\ BuiltinLen(rng).val = Len(BaseRange__iter__(rng))) =>
        LET n == BuiltinLen(rng).val
            i == op.index
        IN  IF 0 <= i /\ i < n
            THEN op.ok /\ ItemEq(op.item, BaseRange__iter__(rng)[i + 1])
            ELSE IF (0 - n) <= i /\ i < 0
            THEN op.ok /\ ItemEq(op.item, BaseRange__iter__(rng)[n + i + 1])
            ELSE ~op.ok /\ op.err = "IndexError"

\* C9: for every valid Progression and every i with 0 <= i < length(),
\* index(getAt(i)) == i.
C9_InverseLaw ==
    (op.name = "getitem" /\ BuiltinLen(rng).ok
        /\ 0 <= op.index /\ op.index < BuiltinLen(rng).val) =>
        /\ op.ok
        /\ BaseRange_index(rng, op.item).ok
        /\ BaseRange_index(rng, op.item).val = op.index
\* the same law on progressions that were never reversed
C9_InverseLawFresh == Fresh => C9_InverseLaw

\* C10: reverse() replaces (start, stop, step) by (stop, start, -step) in
\* place, so two reverse() calls restore the original start, stop and step and
\* the result compares equal to the original Progression.
C10_ReverseInvolution ==
    /\ revs = 1 =>
           /\ rng.start = orig.stop /\ rng.stop = orig.start
           /\ rng.step.e = orig.step.e /\ rng.step.c = 0 - orig.step.c
    /\ revs = 2 =>
           /\ rng.start = orig.start /\ rng.stop = orig.stop /\ rng.step = orig.step
           /\ BaseRange__eq__(rng, orig)
C10_Witness ==
    /\ revs = 2 /\ op.name = "reverse"
    /\ ~DecEq(rng.start, rng.stop)
    /\ rng.step.e > 0

(***************************************************************************)
(* What the claims about the collection compare the code with.             *)
(***************************************************************************)
\* the set of numbers an argument resolves to
Excluded(arg) == ValueSet(_frames_from_segments(Resolved[arg].segs))
\* the segments of a list hold ints only
IntSegments(segs) ==
    \A k \in 1..Len(segs) :
        ~segs[k].start.float /\ ~segs[k].stop.float /\ ~segs[k].step.float
\* the frames of a list that are not in E
RECURSIVE Kept(_, _)
Kept(frames, E) ==
    IF frames = <<>> THEN <<>>
    ELSE IF Value(Head(frames)) \in E THEN Kept(Tail(frames), E)
    ELSE <<Head(frames)>> \o Kept(Tail(frames), E)
\* the concatenation, in segment order, of Compactor(items(seg) minus E)
RECURSIVE PerSegmentCompaction(_, _)
PerSegmentCompaction(segs, E) ==
    IF segs = <<>> THEN <<>>
    ELSE _segments_from_frames(Kept(SegmentFrames(Head(segs)), E))
             \o PerSegmentCompaction(Tail(segs), E)

\* C5: a compact() that follows a compact() leaves the segment list produced
\* by the first one unchanged: same segments, same order.
C5_CompactIdempotent ==
    [][(last.name = "compact" /\ last.ok /\ last'.name = "compact"
          /\ last'.calls = last.calls + 1)
        => (last'.ok /\ segments' = segments)]_vars
\* what holds: the same, of the collections whose segments hold ints only
C5_CompactIdempotentInts ==
    [][(last.name = "compact" /\ last.ok /\ last'.name = "compact"
          /\ last'.calls = last.calls + 1 /\ IntSegments(segments))
        => (last'.ok /\ segments' = segments)]_vars
C5_IntsCompactedTwice ==
    /\ last.name = "compact" /\ last.ok /\ last.prev = "compact"
    /\ last.pre = segments
    /\ Len(segments) >= 2
    /\ \E k \in 1..Len(segments) : segments[k].step.c >= 2

\* C6: remove(arg) replaces the segment list by the concatenation, in the
\* original segment order, of Compactor(items(seg) minus E) for each segment,
\* E being the set of numbers arg resolves to; no number of E remains, every
\* other number of the collection is still in it, and no resulting segment
\* holds items of two original segments.
C6_RemovePerSegment ==
    (last.name = "remove" /\ last.ok) =>
        LET E == Excluded(last.arg)
            before == SegmentsFrameSet(last.pre)
        IN  /\ segments = PerSegmentCompaction(last.pre, E)
            /\ SegmentsFrameSet(segments) \cap E = {}
            /\ SegmentsFrameSet(segments) = before \ E
            /\ \A k \in 1..Len(segments) :
                   \E j \in 1..Len(last.pre) :
                       ValueSet(SegmentFrames(segments[k]))
                           \subseteq ValueSet(SegmentFrames(last.pre[j])) \ E
\* what holds: the same, of the collections whose segments hold ints only
C6_RemovePerSegmentInts ==
    (last.name = "remove" /\ last.ok /\ IntSegments(last.pre)) =>
        LET E == Excluded(last.arg)
            before == SegmentsFrameSet(last.pre)
        IN  /\ segments = PerSegmentCompaction(last.pre, E)
            /\ SegmentsFrameSet(segments) \cap E = {}
            /\ SegmentsFrameSet(segments) = before \ E
            /\ \A k \in 1..Len(segments) :
                   \E j \in 1..Len(last.pre) :
                       ValueSet(SegmentFrames(segments[k]))
                           \subseteq ValueSet(SegmentFrames(last.pre[j])) \ E
\* and what always holds: the list is rebuilt segment by segment, and no
\* number of E remains
C6_RemoveRebuilds ==
    (last.name = "remove" /\ last.ok) =>
        /\ segments = PerSegmentCompaction(last.pre, Excluded(last.arg))
        /\ SegmentsFrameSet(segments) \cap Excluded(last.arg) = {}
C6_IntsRemoved ==
    /\ last.name = "remove" /\ last.ok
    /\ Len(last.pre) >= 2
    /\ Len(segments) > Len(last.pre)
    /\ Excluded(last.arg) \cap SegmentsFrameSet(last.pre) # {}
    /\ \E j, k \in 1..Len(segments) :
           j # k /\ ValueSet(SegmentFrames(segments[j]))
                       \cap ValueSet(SegmentFrames(segments[k])) # {}

(***************************************************************************)
(* Claims about construction and the step invariant.                       *)
(***************************************************************************)
\* C11: in every reachable state, after construction and after any sequence
\* of reverse() calls and assignments to the start, stop and step properties,
\* the step of a Progression is not 0.
C11_StepNeverZero == prog.step # 0
\* the same invariant on BaseRange, which has no setters
C11_StepNeverZeroBaseRange == ~DecIsZero(rng.step)

\* C12: a construction with step == 0 or with stop None raises ValueError and
\* creates no Progression, whatever start and stop are; every other numeric
\* (start, stop, step) constructs a Progression holding these values.
C12_ConstructorArguments ==
    (ctor.called /\ Len(ctor.args) = 3) =>
        LET start == ctor.args[1]
            stop == ctor.args[2]
            step == ctor.args[3]
        IN  IF stop.none \/ step.item.c = 0
            THEN ~ctor.ok /\ ctor.err = "ValueError" /\ RangeIdle
            ELSE /\ ctor.ok
                 /\ rng.start = Dec(start.item.c, start.item.e)
                 /\ rng.stop = Dec(stop.item.c, stop.item.e)
                 /\ rng.step = Dec(step.item.c, step.item.e)
C12_Witness ==
    /\ ctor.called /\ Len(ctor.args) = 3
    /\ ~ctor.args[2].none
    /\ ctor.args[3].item.c = 0 /\ ~ctor.args[3].item.int
    /\ ~ctor.ok

(***************************************************************************)
(* What the claims about parsing compare the code with: the grammar of a   *)
(* token, NUMBER | NUMBER-NUMBER | NUMBER-NUMBER:NUMBER, every NUMBER an    *)
(* optionally signed integer or decimal with one digit at least.           *)
(***************************************************************************)
NumberLiteral(str) ==
    FrameSpecEnd(str, 1) = Len(str) + 1 /\ \E k \in 1..Len(str) : IsDigit(str[k])
NumberValue(str) == IF IsIntLiteral(str) THEN FrameInt(IntValue(str)) ELSE FloatValue(str)
\* the (start, stop, step) readings of a token under the grammar
TokenReadings(tok) ==
    {<<NumberValue(tok), NumberValue(tok), FrameInt(1)>> : x \in {y \in {1} : NumberLiteral(tok)}}
    \cup {<<NumberValue(SubSeq(tok, 1, d - 1)), NumberValue(SubSeq(tok, d + 1, Len(tok))), FrameInt(1)>> :
            d \in {k \in 2..(Len(tok) - 1) :
                     /\ tok[k] = "-"
                     /\ NumberLiteral(SubSeq(tok, 1, k - 1))
                     /\ NumberLiteral(SubSeq(tok, k + 1, Len(tok)))}}
    \cup {<<NumberValue(SubSeq(tok, 1, p[1] - 1)),
            NumberValue(SubSeq(tok, p[1] + 1, p[2] - 1)),
            NumberValue(SubSeq(tok, p[2] + 1, Len(tok)))>> :
            p \in {q \in (2..Len(tok)) \X (2..Len(tok)) :
                     /\ q[1] < q[2] /\ tok[q[1]] = "-" /\ tok[q[2]] = ":"
                     /\ NumberLiteral(SubSeq(tok, 1, q[1] - 1))
                     /\ NumberLiteral(SubSeq(tok, q[1] + 1, q[2] - 1))
                     /\ NumberLiteral(SubSeq(tok, q[2] + 1, Len(tok)))}}
Grammatical(tok) == TokenReadings(tok) # {}
Reading(tok) == CHOOSE r \in TokenReadings(tok) : TRUE
ZeroStep(tok) == Grammatical(tok) /\ NumIsZero(Reading(tok)[3])
TokensOf(str) == SeparatorSplit(str)
BadTokens(str) ==
    {k \in 1..Len(TokensOf(str)) :
        ~Grammatical(TokensOf(str)[k]) \/ ZeroStep(TokensOf(str)[k])}

\* C13: parsing a spec string of n separator-delimited tokens yields n
\* segments in token order: (N, N, 1) for a single number N, (A, B, 1) for
\* A-B, and (A, B, S) for A-B:S with S != 0.
C13_ParseTokens ==
    (col.stage = "parsed" /\ BadTokens(spec_in) = {}) =>
        /\ col.ok
        /\ Len(col.segs) = Len(TokensOf(spec_in))
        /\ \A k \in 1..Len(col.segs) :
               LET r == Reading(TokensOf(spec_in)[k])
               IN  col.segs[k] = _FrangeSegment(r[1], r[2], r[3])
\* the same on spec strings without a single-number token
C13_ParseRangeTokens ==
    (\A k \in 1..Len(TokensOf(spec_in)) : ~NumberLiteral(TokensOf(spec_in)[k]))
        => C13_ParseTokens

\* C14: if any token of a spec string does not match the grammar (SyntaxError,
\* the parse error) or has step 0 (ValueError), the whole parse fails with the
\* error of the first such token and returns no segments, however many
\* earlier tokens were valid.
C14_ParseAllOrNothing ==
    (col.stage = "parsed" /\ BadTokens(spec_in) # {}) =>
        LET first == CHOOSE k \in BadTokens(spec_in) :
                         \A j \in BadTokens(spec_in) : k <= j
        IN  /\ ~col.ok
            /\ col.segs = <<>>
            /\ col.err = IF Grammatical(TokensOf(spec_in)[first])
                         THEN "ValueError" ELSE "SyntaxError"
\* the part of C14 about partial results: a parse that fails returns nothing,
\* and a parse fails whenever a token, read without the newline that may end
\* the string, is outside the grammar or has step 0
C14_NoPartialResult ==
    col.stage = "parsed" =>
        /\ ~col.ok => col.segs = <<>>
        /\ (\E k \in 1..Len(TokensOf(spec_in)) :
               LET tok == SubSeq(TokensOf(spec_in)[k], 1, MatchEnd(TokensOf(spec_in)[k]))
               IN  ~Grammatical(tok) \/ ZeroStep(tok)) => ~col.ok

\* C15: for a valid spec string, parsing it, writing the segments as a string
\* and parsing that string yields the same (start, stop, step) triples,
\* segment for segment.
C15_RoundTrip ==
    (col.stage = "again" /\ sep = <<",">>) => (col.again_ok /\ col.again = col.segs)
\* str() writes a float with Precision significant digits: the numbers that
\* are read back from what it writes
WrittenInFull(num) ==
    ~num.float \/ (IsFloatLiteral(NumStr(num)) /\ FloatValue(NumStr(num)) = num)
SegmentsWrittenInFull(segs) ==
    \A k \in 1..Len(segs) :
        /\ WrittenInFull(segs[k].start) /\ WrittenInFull(segs[k].stop)
        /\ WrittenInFull(segs[k].step)
\* the same on collections without a one-frame segment, whose numbers str()
\* writes in full
C15_RoundTripRanges ==
    ((\A k \in 1..Len(col.segs) : col.segs[k].start # col.segs[k].stop)
        /\ SegmentsWrittenInFull(col.segs)) => C15_RoundTrip

\* C16: whatever the separator a collection is configured with, its string
\* form is accepted by a collection constructed with the same separator and
\* yields the same flattened sequence of items.
C16_OwnOutput ==
    col.stage = "again" =>
        /\ col.again_ok
        /\ _frames_from_segments(col.again) = _frames_from_segments(col.segs)
\* the same with separators made of a comma and white space, on collections
\* without a one-frame segment
C16_OwnOutputComma ==
    ((\A k \in 1..Len(col.segs) : col.segs[k].start # col.segs[k].stop)
        /\ SegmentsWrittenInFull(col.segs)
        /\ sep # <<";">>) => C16_OwnOutput

(***************************************************************************)
(* What the claims about add() and compact() compare the code with.        *)
(***************************************************************************)
\* the parts of an argument that are not lists, left to right, depth first
RECURSIVE Leaves(_)
RECURSIVE LeavesOfAll(_)
Leaves(arg) == IF arg.kind = "list" THEN LeavesOfAll(arg.items) ELSE <<arg>>
LeavesOfAll(args) ==
    IF args = <<>> THEN <<>> ELSE Leaves(Head(args)) \o LeavesOfAll(Tail(args))
\* what one part resolves to
LeafSegments(leaf) ==
    IF leaf.kind = "number"
    THEN SegsResult(TRUE, "", <<_FrangeSegment(leaf.num, leaf.num, FrameInt(1))>>)
    ELSE IF leaf.kind = "spec" THEN _segments_from_spec(leaf.spec)
    ELSE SegsResult(TRUE, "", leaf.segs)
RECURSIVE ConcatSegments(_)
ConcatSegments(leaves) ==
    IF leaves = <<>> THEN <<>>
    ELSE LeafSegments(Head(leaves)).segs \o ConcatSegments(Tail(leaves))

\* C17: add(arg) appends all or nothing: when every part of arg resolves, the
\* new list is the old list followed by the resolved segments, left to right
\* and depth first; when a part fails, its error is raised and the list is
\* what it was before the call.
C17_AddAllOrNothing ==
    last.name = "add" =>
        LET leaves == Leaves(last.arg)
            failing == {k \in 1..Len(leaves) : ~LeafSegments(leaves[k]).ok}
        IN  IF failing = {}
            THEN last.ok /\ segments = last.pre \o ConcatSegments(leaves)
            ELSE /\ ~last.ok
                 /\ segments = last.pre
                 /\ \E k \in failing :
                        /\ \A j \in failing : k <= j
                        /\ last.err = LeafSegments(leaves[k]).err
C17_Witness ==
    /\ last.name = "add" /\ ~last.ok
    /\ last.arg.kind = "list"
    /\ LeafSegments(Leaves(last.arg)[1]).ok
    /\ Len(segments) >= 3
    /\ last.prev = "add"

\* the whole numbers of a set of values
WholeOf(S) == {v.c : v \in {w \in S : ~w.float}}
\* C18: if the set of all items of the collection is a run a..b of 3 or more
\* consecutive integers, however the items are split, repeated, overlapped or
\* ordered across the segments, then after compact() the collection is the
\* one segment (a, b, 1) and its string form is "a-b".  The items are compared
\* as numbers: 2.0 is the integer 2.
C18_CompactRun ==
    (last.name = "compact" /\ last.ok) =>
        LET Compacted(S) ==
                \A a \in WholeOf(S), b \in WholeOf(S) :
                    (b - a >= 2 /\ S = {FrameInt(n) : n \in a..b}) =>
                        /\ Len(segments) = 1
                        /\ Value(segments[1].start) = FrameInt(a)
                        /\ Value(segments[1].stop) = FrameInt(b)
                        /\ Value(segments[1].step) = FrameInt(1)
                        /\ Frange__str__(segments, <<",">>)
                               = IntStr(a) \o <<"-">> \o IntStr(b)
        IN  Compacted(ValueSet(_frames_from_segments(last.pre)))
\* what holds: the same, of the collections whose items are all held as ints
C18_CompactRunInts ==
    (last.name = "compact" /\ last.ok /\ AllInts(_frames_from_segments(last.pre))) =>
        LET S == Ints(_frames_from_segments(last.pre)) IN
        (S # {} /\ \E a \in S, b \in S : b - a >= 2 /\ S = a..b) =>
            \E a \in S, b \in S :
                /\ S = a..b
                /\ segments = <<IntSegment(a, b, 1)>>
                /\ Frange__str__(segments, <<",">>) = IntStr(a) \o <<"-">> \o IntStr(b)
C18_Witness ==
    /\ last.name = "compact" /\ last.ok
    /\ Len(last.pre) >= 2
    /\ \E k \in 1..Len(last.pre) : Abs(last.pre[k].step.c) >= 2
    /\ Len(_frames_from_segments(last.pre)) > Cardinality(SegmentsFrameSet(last.pre))
    /\ segments = <<IntSegment(segments[1].start.c, segments[1].stop.c, 1)>>
    /\ segments[1].stop.c - segments[1].start.c >= 2

\* C19: the segments the compactor returns are ordered by strictly ascending
\* start, whatever the order of the input.
C19_AscendingStart ==
    result.done =>
        \A k \in 1..(Len(result.segments) - 1) :
            NumLess(result.segments[k].start, result.segments[k + 1].start)
C19_Witness ==
    /\ result.done
    /\ Len(result.segments) >= 3
    /\ NumLess(frames_in[Len(frames_in)], frames_in[1])
    /\ result.segments[1].start = result.segments[1].stop
    /\ result.segments[2].step.c >= 2
    /\ NumLess(result.segments[3].start, result.segments[3].stop)

\* C20: the values the compactor leaves as one-frame segments contain no three
\* equally spaced values that are adjacent in the sorted order of these values.
Singles(segs) == SortedList({segs[k].start.c : k \in {j \in 1..Len(segs) :
                                                       segs[j].start = segs[j].stop}})
C20_NoSteppedSingles ==
    (result.done /\ AllInts(frames_in)) =>
        LET singles == Singles(result.segments) IN
        \A i \in 1..(Len(singles) - 2) :
            singles[i + 1] - singles[i] # singles[i + 2] - singles[i + 1]

(***************************************************************************)
(* C21-C30.                                                                *)
(***************************************************************************)
\* the frames of the worked example
ExampleFrames == {1, 4, 5, 6, 7, 9, 11}

\* C21: compacting the numbers 1,4,5,6,7,9,11 gives the segments written
\* "1,4,5-7,9,11": 1 and 4 are singletons, 5,6,7 the step-1 segment 5-7, and
\* 9 and 11 singletons.
C21_ExampleAsStated ==
    (result.done /\ AllInts(frames_in) /\ Ints(frames_in) = ExampleFrames)
        => Frange__str__(result.segments, <<",">>)
               = <<"1", ",", "4", ",", "5", "-", "7", ",", "9", ",", "1", "1">>

\* what the code returns for the numbers 1,4,5,6,7,9,11: the four segments
\* written "1,4-7,9,11".  The step-1 pass takes 4,5,6,7 and leaves 9 and 11 as
\* singletons, where 1, 4-6 and 7-11:2 cover the numbers with three.
C21_Example ==
    (result.done /\ AllInts(frames_in) /\ Ints(frames_in) = ExampleFrames)
        => /\ result.segments = <<IntSegment(1, 1, 1), IntSegment(4, 7, 1),
                                  IntSegment(9, 9, 1), IntSegment(11, 11, 1)>>
           /\ Frange__str__(result.segments, <<",">>)
                  = <<"1", ",", "4", "-", "7", ",", "9", ",", "1", "1">>

C21_Witness ==
    result.done /\ frames_in = IntFrames(<<1, 4, 5, 6, 7, 9, 11>>)

(***************************************************************************)
(* openrange/base.py: two progressions compared with == and !=.  The first *)
(* is made from ints, the second from ints and from floats of the same     *)
(* values.                                                                 *)
(***************************************************************************)
MaxEqual == 3       \* the progressions compared have start, stop, |step| in 0 .. MaxEqual

EqualInts == {IntItem(n) : n \in 0..MaxEqual}
EqualFloats == {FloatItem(10 * n, 1) : n \in 0..MaxEqual}
EqualSteps(items) == {s \in items \cup {Negated(i) : i \in items} : s.c # 0}

InitEquals ==
    /\ \E start \in EqualInts, stop \in EqualInts, step \in EqualSteps(EqualInts) :
           rng = BaseRange__init__(start, stop, step)
    /\ \E start \in EqualInts \cup EqualFloats, stop \in EqualInts \cup EqualFloats,
          step \in EqualSteps(EqualInts \cup EqualFloats) :
           other = BaseRange__init__(start, stop, step)
    /\ orig = rng /\ revs = 0 /\ op = NoOp /\ gen = NoGen
    /\ CompactorIdle /\ FrangeIdle /\ CtorIdle /\ PropertyIdle /\ ParserIdle
    /\ PassesIdle

\* rng == other
Equals ==
    /\ op = NoOp
    /\ op' = OpRec("eq", NoItem, 0,
                   Returned(BoolVal(BaseRange__eq__(rng, other)), NoItem), <<>>)
    /\ UNCHANGED <<rng, orig, revs, gen, compactorVars, frangeVars, ctorVars, propertyVars,
                   parserVars, equalVars, passVars>>
\* rng != other, under either interpreter (op.index records which)
NotEquals ==
    /\ op = NoOp
    /\ \E python \in Pythons :
           op' = OpRec("ne", NoItem, python,
                       Returned(BoolVal(BaseRange__ne__(rng, other, python)), NoItem), <<>>)
    /\ UNCHANGED <<rng, orig, revs, gen, compactorVars, frangeVars, ctorVars, propertyVars,
                   parserVars, equalVars, passVars>>

NextEquals == Equals \/ NotEquals

SpecEquals == InitEquals /\ [][NextEquals]_vars

\* two numbers have the same value
SameNumber(a, b) == a.c * Pow10(b.e) = b.c * Pow10(a.e)
SameFields(a, b) ==
    SameNumber(a.start, b.start) /\ SameNumber(a.stop, b.stop) /\ SameNumber(a.step, b.step)
\* two progressions iterate to the same items (1 and 1.0 are the same item)
SameItems(a, b) ==
    /\ Len(BaseRange__iter__(a)) = Len(BaseRange__iter__(b))
    /\ \A k \in 1..Len(BaseRange__iter__(a)) :
           ItemEq(BaseRange__iter__(a)[k], BaseRange__iter__(b)[k])

\* C22: two Progressions are equal iff their numeric start, stop and step all
\* match: progressions that differ in one of the three are unequal even when
\* they iterate to the same items, and a progression made from ints equals the
\* one made from the floats of the same values.
C22_EqualFields ==
    op.name = "eq" =>
        /\ (op.val = 1) <=> SameFields(rng, other)
        /\ (SameItems(rng, other) /\ ~SameFields(rng, other)) => op.val = 0
        /\ (/\ other.start.c = 10 * rng.start.c /\ other.start.e = 1
            /\ other.stop.c = 10 * rng.stop.c /\ other.stop.e = 1
            /\ other.step.c = 10 * rng.step.c /\ other.step.e = 1) => op.val = 1
C22_Witness ==
    /\ op.name = "eq" /\ op.val = 0
    /\ SameItems(rng, other)
    /\ Len(BaseRange__iter__(rng)) >= 2
    /\ SameNumber(rng.start, other.start) /\ SameNumber(rng.step, other.step)

\* C23: two Ranges that iterate to the same sequence of items compare equal
\* (== is true and != is false) even when their stop values differ, and Ranges
\* with different item sequences compare unequal.
C23_EqualItems ==
    /\ op.name = "eq" => ((op.val = 1) <=> SameItems(rng, other))
    /\ op.name = "ne" => ((op.val = 0) <=> SameItems(rng, other))
\* what holds instead: Ranges with different item sequences compare unequal,
\* and under Python 3 != is the negation of ==
C23_UnequalItems ==
    /\ (op.name = "eq" /\ ~SameItems(rng, other)) => op.val = 0
    /\ (op.name = "ne" /\ ~SameItems(rng, other)) => op.val = 1
    /\ (op.name = "ne" /\ op.index = 3) => op.val = 1 - BoolVal(BaseRange__eq__(rng, other))

\* how often an item occurs among the items yielded
Occurrences(item, items) == Cardinality({k \in 1..Len(items) : ItemEq(items[k], item)})
SameMultiset(a, b) ==
    /\ Len(a) = Len(b)
    /\ \A k \in 1..Len(a) : Occurrences(a[k], a) = Occurrences(a[k], b)

\* C24: random() yields every item of the iteration exactly once, in some
\* order: the multiset of the items of random() equals the multiset of the
\* items of the iteration, for every valid start, stop and step.
C24_RandomPermutation ==
    op.name = "random" => (op.ok /\ SameMultiset(op.items, BaseRange__iter__(rng)))
\* the same on progressions whose len() is the number of items iterated
C24_RandomWhereLengthRight ==
    (op.name = "random" /\ BuiltinLen(rng).ok
        /\ BuiltinLen(rng).val = Len(BaseRange__iter__(rng)))
        => (op.ok /\ SameMultiset(op.items, BaseRange__iter__(rng)))
C24_Shuffled ==
    /\ op.name = "random" /\ op.ok /\ Len(op.items) = MaxSample
    /\ op.items # BaseRange__iter__(rng)
    /\ SameMultiset(op.items, BaseRange__iter__(rng))

\* C25: after reverse(), and for the Progression returned by reversed(),
\* iteration, contains() and index() behave exactly as for a freshly
\* constructed Progression with the same start, stop and step.
C25_ReversedAsFresh ==
    LET fresh == BaseRange_copy(rng) IN
    /\ op.name = "iter" => op.items = BaseRange__iter__(fresh)
    /\ op.name = "contains" => op.val = BoolVal(BaseRange__contains__(fresh, op.arg))
    /\ op.name = "index" =>
           /\ op.ok = BaseRange_index(fresh, op.arg).ok
           /\ op.err = BaseRange_index(fresh, op.arg).err
           /\ op.val = BaseRange_index(fresh, op.arg).val
\* the same after no reverse() or two of them
C25_TwiceReversedAsFresh == revs \in {0, 2} => C25_ReversedAsFresh
C25_ReversedIterated ==
    /\ op.name = "iter" /\ revs = 1
    /\ op.items = <<>>
    /\ Len(BaseRange__iter__(BaseRange_copy(rng))) >= 3

\* C26: flattening terminates: for every collection built from grammatically
\* valid tokens with a non-zero step, including tokens whose step points away
\* from stop, materializing the items (iteration, frames, remove(), compact())
\* finishes: no call hangs and no segment of the collection iterates for ever.
C26_FlatteningTerminates == ~hung /\ ~AnyDiverges(segments)
\* the same for collections whose segments all step towards their stop
C26_TerminatesWhenTowardsStop ==
    [][(~AnyDiverges(segments) /\ last'.calls = last.calls + 1
          /\ (last'.name = "remove" => ~AnyDiverges(_segments_from_arg(last'.arg).segs)))
        => ~hung']_vars

(***************************************************************************)
(* frange/__init__.py: Frange(frames_arg) with any argument, next to       *)
(* Frange() followed by add(frames_arg).                                   *)
(***************************************************************************)
\* bool(frames_arg): a number is false when 0, a string or a list when empty;
\* a Frange or a _FrangeSegment defines neither __len__ nor __bool__
Truthy(frames_arg) ==
    IF frames_arg.kind = "number" THEN ~NumIsZero(frames_arg.num)
    ELSE IF frames_arg.kind = "spec" THEN frames_arg.spec # <<>>
    ELSE IF frames_arg.kind = "list" THEN frames_arg.items # <<>>
    ELSE TRUE
\* Frange.__init__: if frames_arg: self.add(frames_arg)
Frange__init__(frames_arg) ==
    IF Truthy(frames_arg) THEN _segments_from_arg(frames_arg)
    ELSE SegsResult(TRUE, "", <<>>)

NewArgs ==
    FrangeArgs \cup {ArgNumber(FrameInt(0)), ArgNumber(FrameFloat(0, 1, FALSE)), ArgSpec(<<>>), ArgList(<<>>), ArgFrange(<<>>)}

InitNew == Init

\* Frange(frames_arg): the rest of the constructor after self._segments = []
New ==
    /\ last = NoCall
    /\ \E arg \in NewArgs :
        LET Made(new) ==
                /\ segments' = IF new.ok THEN new.segs ELSE segments
                /\ last' = Call("new", new.ok, new.err, segments, arg)
        IN  Made(Frange__init__(arg))
    /\ UNCHANGED <<hung, rangeVars, compactorVars, ctorVars, propertyVars, parserVars,
                   equalVars, passVars>>
\* add() on a collection that exists: Frange(), or a Frange(frames_arg) that returned
AddToNew == (last.name = "new" => last.ok) /\ Add

NextNew == New \/ AddToNew

SpecNew == InitNew /\ [][NextNew]_vars

\* C30: constructing a collection with an argument is equivalent to creating
\* an empty collection and calling add with that argument, for every supported
\* argument: the same segments, or the same exception; a collection
\* constructed from the number 0 holds the singleton segment of 0.
C30_ConstructorIsAdd ==
    last.name = "new" =>
        LET added == _segments_from_arg(last.arg) IN
        /\ last.ok = added.ok
        /\ last.err = added.err
        /\ segments = (IF added.ok THEN added.segs ELSE <<>>)
\* the same for the arguments Python takes as true
C30_ConstructorIsAddWhenTrue ==
    (last.name = "new" /\ Truthy(last.arg)) =>
        LET added == _segments_from_arg(last.arg) IN
        /\ last.ok = added.ok
        /\ last.err = added.err
        /\ segments = (IF added.ok THEN added.segs ELSE <<>>)
C30_ZeroConstructed ==
    last.name = "new" /\ last.arg = ArgNumber(FrameInt(0)) /\ last.ok /\ segments = <<>>

(***************************************************************************)
(* frange/__init__.py: _segments_from_frames loop by loop.  Python leaves  *)
(* the order in which a set is walked to the implementation, so the walk   *)
(* of set(steps) takes any order; CPython's order is StepOrder.            *)
(***************************************************************************)
MaxPool == 10       \* the frames compacted loop by loop are in 0 .. MaxPool

\* every order in which the members of a set can be walked
RECURSIVE Orders(_)
Orders(S) ==
    IF S = {} THEN {<<>>}
    ELSE UNION {{<<s>> \o o : o \in Orders(S \ {s})} : s \in S}

InitPasses ==
    /\ CompactorIdle
    /\ run = NoRun
    /\ RangeIdle /\ FrangeIdle /\ CtorIdle /\ PropertyIdle /\ ParserIdle /\ EqualsIdle

\* the pools that the passes for the steps of a list can leave: the pool
\* itself, and what a pass that found a segment leaves of such a pool
RECURSIVE PoolsLeft(_, _)
PoolsLeft(frames, steps) ==
    {frames} \cup UNION {PoolsLeft(left, steps) :
                         left \in {GroupbyPass(PassStart(frames, <<>>, FALSE, 0), step).frames :
                                       step \in steps} \ {frames}}
\* the lists of frames of the model: every set of ints of the pool, in order,
\* and the lists with floats
PoolInts == {IntFrames(SortedList(S)) : S \in SUBSET (0..MaxPool)}
PoolLists == PoolInts \cup FloatLists

\* the call with a list of frames: the frames sorted without duplicates, the
\* steps between neighbours, and the walk of set(steps) begun
Begin ==
    /\ run.stage = "none"
    /\ \E frames_arg \in PoolLists :
        /\ frames_in' = frames_arg
        /\ LET frames == SortedFrames(frames_arg) IN
           \E order \in Orders(CandidateSteps(frames)) :
               run' = [NoRun EXCEPT !.stage = "loop", !.order = order, !.todo = order,
                                    !.frames = frames]
    /\ UNCHANGED <<result, rangeVars, frangeVars, ctorVars, propertyVars,
                   parserVars, equalVars>>

\* one pass of the while loop over a pool for a step: the for loop over
\* groupby.  Computed once for every pool of ints and step of the model, and
\* for every list with floats, every pool it can leave and every step of it.
PassOverFloats ==
    [list \in FloatLists |->
        [frames \in PoolsLeft(SortedFrames(list), CandidateSteps(SortedFrames(list))) |->
            [step \in CandidateSteps(SortedFrames(list)) |->
                GroupbyPass(PassStart(frames, <<>>, FALSE, 0), step)]]]
PassOver ==
    [frames \in PoolInts |->
        [step \in 1..MaxPool |->
            GroupbyPass(PassStart(frames, <<>>, FALSE, 0), FrameInt(step))]]

\* one pass of the while loop for the step at hand, then segments_found: the
\* walk moves to the next step when the pass found no segment
Pass ==
    /\ run.stage = "loop" /\ run.todo # <<>>
    /\ LET p == IF AllInts(frames_in)
                THEN PassOver[run.frames][Head(run.todo).c]
                ELSE PassOverFloats[frames_in][run.frames][Head(run.todo)]
       IN  run' = [run EXCEPT !.frames = p.frames,
                              !.segments = run.segments \o p.segments,
                              !.passes = run.passes + 1,
                              !.num_segments = p.num_segments,
                              !.removed = Len(run.frames) - Len(p.frames),
                              !.remove_failed = run.remove_failed \/ p.remove_failed,
                              !.todo = IF p.num_segments > 0 THEN run.todo
                                       ELSE Tail(run.todo)]
    /\ UNCHANGED <<rangeVars, compactorVars, frangeVars, ctorVars, propertyVars,
                   parserVars, equalVars>>

\* the frames left over become one-frame segments and the list is sorted
Finish ==
    /\ run.stage = "loop" /\ run.todo = <<>>
    /\ run' = [run EXCEPT !.stage = "done",
                          !.result = SortByStart(run.segments
                              \o [k \in 1..Len(run.frames) |->
                                     _FrangeSegmentOf(run.frames[k])])]
    /\ UNCHANGED <<rangeVars, compactorVars, frangeVars, ctorVars, propertyVars,
                   parserVars, equalVars>>

NextPasses == Begin \/ Pass \/ Finish

SpecPasses == InitPasses /\ [][NextPasses]_vars
\* the function runs on: a loop that can take a step takes it
SpecPassesFair == SpecPasses /\ WF_vars(NextPasses)

\* the order in which CPython walks the steps of the input
CPythonOrder == StepOrder(Steps(SortedFrames(frames_in)))

\* C27: the Compactor's result for a given input set is the same whichever
\* order the set of candidate steps is processed in: a run in any order
\* returns the segment list of the run in CPython's order.
C27_OrderIndependent ==
    run.stage = "done" => run.result = _segments_from_frames(frames_in)
\* two runs in the same order return the same segment list
C27_SameOrderSameResult ==
    (run.stage = "done" /\ run.order = CPythonOrder)
        => run.result = _segments_from_frames(frames_in)

PairwiseDisjoint(segs) ==
    \A j, k \in 1..Len(segs) :
        j # k => ValueSet(SegmentFrames(segs[j])) \cap ValueSet(SegmentFrames(segs[k])) = {}

\* C28: during compaction no value is assigned to more than one segment, and
\* every removal of a group member from the pool targets a value that is
\* still in the pool, although the pool is mutated while it is being grouped;
\* the final segments are pairwise disjoint as item sets.  A value assigned to
\* a segment is removed from the pool at once, so a value assigned a second
\* time is one whose removal fails.
C28_RemovalNeverFails ==
    /\ ~run.remove_failed
    /\ run.stage = "done" => PairwiseDisjoint(run.result)
\* what holds: of the lists of ints, no removal fails, the segments found are
\* pairwise disjoint as item sets and hold no frame still in the pool,
\* segments and pool together are the input, and so are the final segments
C28_RemovalNeverFailsInts ==
    AllInts(frames_in) =>
    /\ ~run.remove_failed
    /\ PairwiseDisjoint(run.segments)
    /\ SegmentsFrameSet(run.segments) \cap ValueSet(run.frames) = {}
    /\ run.stage # "none" =>
           SegmentsFrameSet(run.segments) \cup ValueSet(run.frames) = ValueSet(frames_in)
    /\ run.stage = "done" =>
           (PairwiseDisjoint(run.result)
            /\ SegmentsFrameSet(run.result) = ValueSet(frames_in))
C28_Witness ==
    /\ run.stage = "done"
    /\ run.passes >= 4
    /\ Len(run.segments) >= 2
    /\ run.frames # <<>>
\* no removal fails and the segments returned are pairwise disjoint, on the
\* function as a whole, called with lists in any arrangement: holds of the
\* lists of ints, fails with the floats of FloatLists as C28 does
C28_NoFailedRemoval ==
    result.done => (~result.remove_failed /\ PairwiseDisjoint(result.segments))

\* C29: the Compactor terminates on every finite input: a pass is repeated
\* for a step only after a pass that removed at least 3 values from the pool
\* for each segment it found, so the passes are at most one per step and one
\* per 3 input values; the run reaches its end, and an empty input returns an
\* empty segment list.
C29_PassesBounded ==
    /\ run.num_segments > 0 => run.removed >= 3 * run.num_segments
    /\ run.num_segments = 0 => run.removed = 0
    /\ 3 * (run.passes - Len(run.order)) <= Len(frames_in)
    /\ (run.stage = "done" /\ frames_in = <<>>) => run.result = <<>>
C29_CompactorTerminates == []C29_PassesBounded /\ <>(run.stage = "done")
C29_Witness ==
    /\ run.stage = "loop"
    /\ run.passes >= 2
    /\ run.num_segments > 0
    /\ run.todo = run.order

====
